---- MODULE Spec2Model ----
(***************************************************************************)
(* Model of the order-execution core of the statistical-arbitrage system   *)
(* (src/idempotent_execute.py): idempotency keys, the order ledger, the    *)
(* broker boundary, the leg executor and the pair orchestrator.            *)
(*                                                                         *)
(* Strings are TLA+ strings; Python's s[:n] is Prefix(s, n).               *)
(***************************************************************************)
EXTENDS Integers, Sequences, FiniteSets, TLC

VARIABLES
    ledger,           \* the orders table: a set of rows
    broker,           \* the broker's orders, in creation order
    TRADING_ENABLED,  \* the process-wide kill switch
    last,             \* record of the most recent completed call
    prev,             \* record of the call before it
    ncalls,           \* calls made so far
    market,           \* prices and positions tables (read by the risk gate and sizing)
    runs,             \* two overlapping runs of execute_leg (race specification)
    kin,              \* inputs of build_client_order_id (key specification)
    kout,             \* the keys computed from kin
    rin,              \* inputs of risk_check (risk specification)
    rout,             \* the reasons risk_check returned for rin
    job,              \* the run of the module's main block (run specification)
    sz,               \* a sizing of two legs: prices, hedge ratio, quantities
    http,             \* a call of request_json (resilience client)
    dlq,              \* the dead-letter file: a sequence of records
    throttle,         \* the clock, _last_ts and the requests released (throttle specification)
    sync,             \* broker fills, trades and positions tables (sync specification)
    runner            \* the job runner's loop: clock, last starts, position

vars == <<ledger, broker, TRADING_ENABLED, market, last, prev, ncalls, runs, kin, kout, rin, rout, job, sz, http, dlq, throttle, sync, runner>>

(***************************************************************************)
(* Bounds of the model.                                                    *)
(***************************************************************************)
MaxCalls == 2          \* calls of execute_leg / execute_pair_signal per behaviour
MaxBrokerOrders == 4   \* orders the broker can hold
MaxForeign == 1        \* orders placed at the broker by other sources
MaxQty == 2            \* largest order quantity

(***************************************************************************)
(* Strings.                                                                *)
(***************************************************************************)
DigitChars == {"0", "1", "2", "3", "4", "5", "6", "7", "8", "9"}

\* Python s[:n]
Prefix(s, n) == IF Len(s) <= n THEN s ELSE SubSeq(s, 1, n)

\* "".join(ch for ch in s if ch.isdigit())
RECURSIVE digits_of(_)
digits_of(s) ==
    IF Len(s) = 0 THEN ""
    ELSE LET c == SubSeq(s, 1, 1)
         IN (IF c \in DigitChars THEN c ELSE "") \o digits_of(SubSeq(s, 2, Len(s)))

HexDigit(n) == SubSeq("0123456789abcdef", n + 1, n + 1)

\* n written with w hex digits, least significant digit first
RECURSIVE HexLE(_, _)
HexLE(n, w) == IF w = 0 THEN "" ELSE HexDigit(n % 16) \o HexLE(n \div 16, w - 1)

(***************************************************************************)
(* The inputs the model draws keys from.                                   *)
(***************************************************************************)
PairIdSeq == <<1, 2, 1000>>
TimestampSeq == <<"2024-01-10T00:00:00", "2024-01-11T09:30:00+00:00">>
ActionSeq == <<"ENTER_LONG", "ENTER_SHORT", "EXIT">>
LegSeq == <<"L1", "L2">>
SymbolSeq == <<"AAPL", "MSFT", "GOOG", "GOOGL">>
SideSeq == <<"buy", "sell">>

Range(f) == {f[i] : i \in DOMAIN f}
PairIds == Range(PairIdSeq)
Timestamps == Range(TimestampSeq)
Actions == Range(ActionSeq)
Legs == Range(LegSeq)
Symbols == Range(SymbolSeq)
Sides == Range(SideSeq)

\* the broker's clock reading stamped on every order it reports
BrokerTime == "2024-01-10T14:30:05.123456Z"

\* 36-character broker order ids (UUID shaped), one per creation index
OrderId(i) == "0000000" \o ToString(i) \o "-0000-4000-8000-000000000000"

KeyInputs == PairIds \X Timestamps \X Actions \X Legs \X Symbols

\* core = f"p{pair_id}_{ts_digits}_{action}_{leg}_{symbol}"
LegCore(pair_id, ts_iso, action, leg, symbol) ==
    LET ts_digits == Prefix(digits_of(ts_iso), 14)
    IN "p" \o ToString(pair_id) \o "_" \o ts_digits \o "_" \o action \o "_"
           \o leg \o "_" \o symbol

\* core = f"flatten_{alpaca_order_id[:10]}_{ts_digits}_{symbol}_{flatten_side}_{qty}"
FlattenCore(alpaca_order_id, ts_raw, symbol, flatten_side, qty) ==
    LET d == Prefix(digits_of(ts_raw), 14)
        ts_digits == IF d = "" THEN "00000000000000" ELSE d
    IN "flatten_" \o Prefix(alpaca_order_id, 10) \o "_" \o ts_digits \o "_"
           \o symbol \o "_" \o flatten_side \o "_" \o ToString(qty)

\* the k-th element (k >= 0) of the product of the sequences in doms, as a tuple
RECURSIVE Decode(_, _)
Decode(k, doms) ==
    IF doms = <<>> THEN <<>>
    ELSE LET d == Head(doms)
         IN <<d[(k % Len(d)) + 1]>> \o Decode(k \div Len(d), Tail(doms))

RECURSIVE Product(_)
Product(doms) == IF doms = <<>> THEN 1 ELSE Len(Head(doms)) * Product(Tail(doms))

LegDoms == <<PairIdSeq, TimestampSeq, ActionSeq, LegSeq, SymbolSeq>>
FlattenDoms == <<[i \in 1..(MaxBrokerOrders + 1) |-> OrderId(i)], SymbolSeq, SideSeq,
                 [q \in 1..MaxQty |-> q]>>

\* every string the model ever hashes: the cores of the leg keys, then the
\* cores of the flatten keys
CoreSeq ==
    [k \in 1..Product(LegDoms) |->
        LET t == Decode(k - 1, LegDoms) IN LegCore(t[1], t[2], t[3], t[4], t[5])]
    \o
    [k \in 1..Product(FlattenDoms) |->
        LET t == Decode(k - 1, FlattenDoms)
        IN FlattenCore(t[1], BrokerTime, t[2], t[3], t[4])]

\* hashlib.sha1(core).hexdigest(): 40 hex digits.  SHA-1 itself is a library
\* function; it is modelled as a digest that is collision free on the strings
\* the model hashes (the n-th string gets the number n, low digit first).
sha1_hexdigest(core) ==
    HexLE(CHOOSE i \in 1..Len(CoreSeq) : CoreSeq[i] = core, 40)

\* the key without the final [:48]
build_client_order_id_untruncated(pair_id, ts_iso, action, leg, symbol) ==
    LET core == LegCore(pair_id, ts_iso, action, leg, symbol)
        h == Prefix(sha1_hexdigest(core), 10)
    IN "statarb_" \o core \o "_" \o h

build_client_order_id(pair_id, ts_iso, action, leg, symbol) ==
    LET core == LegCore(pair_id, ts_iso, action, leg, symbol)
        h == Prefix(sha1_hexdigest(core), 10)
    IN Prefix("statarb_" \o core \o "_" \o h, 48)

\* build_client_order_id tabulated over the inputs the model draws from
ClientOrderIds ==
    [t \in KeyInputs |-> build_client_order_id(t[1], t[2], t[3], t[4], t[5])] @@ <<>>

(***************************************************************************)
(* The broker (Alpaca) as the code sees it.  An order is the JSON object   *)
(* the broker reports; the i-th order created has id OrderId(i).           *)
(***************************************************************************)
OpenStatuses == {"new", "partially_filled"}

NoOrder ==
    [id |-> "", client_order_id |-> "", symbol |-> "", side |-> "", qty |-> 0,
     filled_qty |-> 0, status |-> "", updated_at |-> ""]

\* the order the broker creates for an accepted POST /v2/orders
NewOrder(b, symbol, qty, side, client_order_id) ==
    [id |-> OrderId(Len(b) + 1), client_order_id |-> client_order_id,
     symbol |-> symbol, side |-> side, qty |-> qty, filled_qty |-> 0,
     status |-> "new", updated_at |-> BrokerTime]

\* the broker's orders that carry a client order id
OrdersOfKey(b, client_order_id) ==
    {i \in DOMAIN b : b[i].client_order_id = client_order_id}

BrokerHasClientId(b, client_order_id) ==
    \E i \in DOMAIN b : b[i].client_order_id = client_order_id

\* open orders on the other side of the same symbol (the wash-trade guard)
ConflictingOpen(b, symbol, side) ==
    {b[i].id : i \in {j \in DOMAIN b : /\ b[j].symbol = symbol
                                        /\ b[j].side # side
                                        /\ b[j].status \in OpenStatuses}}

\* GET /v2/orders/{id}, answered
fetch_order_by_alpaca_id(b, alpaca_order_id) ==
    b[CHOOSE i \in DOMAIN b : b[i].id = alpaca_order_id]

\* GET /v2/orders without the by_client_order_id filter: the first order listed
fetch_order_by_client_id_unfiltered(b, client_order_id) == b[1]

\* GET /v2/orders:by_client_order_id, answered
fetch_order_by_client_id(b, client_order_id) ==
    b[CHOOSE i \in DOMAIN b : b[i].client_order_id = client_order_id]

\* How the broker may answer one submission.  post is the answer to the POST,
\* ref the order a wash-trade rejection names, get the fate of the GET that
\* follows a rejection ("ok" or "fail": raise_for_status raises).
\*   "200"        accepted, the new order is returned
\*   "200_lost"   accepted, but the response never arrives (requests raises)
\*   "422_unique" rejected: client_order_id must be unique
\*   "403_wash"   rejected: code 40310000 with existing_order_id
\*   "error"      any other status >= 400
Answer(post, ref, get) == [post |-> post, ref |-> ref, get |-> get]

PostAnswers(b, symbol, side, client_order_id) ==
    (IF BrokerHasClientId(b, client_order_id)
     THEN {Answer("422_unique", "", g) : g \in {"ok", "fail"}}
     ELSE IF Len(b) < MaxBrokerOrders
          THEN {Answer("200", "", ""), Answer("200_lost", "", "")}
          ELSE {})
    \cup {Answer("403_wash", id, g) :
            id \in ConflictingOpen(b, symbol, side), g \in {"ok", "fail"}}
    \cup {Answer("error", "", "")}

(***************************************************************************)
(* The order ledger (table orders, client_order_id UNIQUE).                *)
(***************************************************************************)
RowOf(order_json) ==
    [alpaca_order_id |-> order_json.id,
     client_order_id |-> order_json.client_order_id,
     symbol |-> order_json.symbol, side |-> order_json.side,
     qty |-> order_json.qty, status |-> order_json.status,
     raw |-> order_json]

NoRow == RowOf(NoOrder)

RowsOf(l, client_order_id) == {r \in l : r.client_order_id = client_order_id}

\* SELECT alpaca_order_id, status ... fetchone(): <<>> is None
db_find_by_client_id_never(l, client_order_id) == <<>>

db_find_by_client_id(l, client_order_id) ==
    IF \E r \in l : r.client_order_id = client_order_id
    THEN LET r == CHOOSE r \in l : r.client_order_id = client_order_id
         IN <<r.alpaca_order_id, r.status>>
    ELSE <<>>

\* INSERT ... ON CONFLICT (client_order_id) DO UPDATE SET alpaca_order_id,
\* status, submitted_at, raw
db_upsert_order_update_only(l, order_json) ==
    {IF r.client_order_id = order_json.client_order_id
     THEN [r EXCEPT !.alpaca_order_id = order_json.id,
                    !.status = order_json.status, !.raw = order_json]
     ELSE r : r \in l}

\* an INSERT without the ON CONFLICT clause on a table without the constraint
db_upsert_order_insert_only(l, order_json) == l \cup {RowOf(order_json)}

db_upsert_order(l, order_json) ==
    IF \E r \in l : r.client_order_id = order_json.client_order_id
    THEN {IF r.client_order_id = order_json.client_order_id
          THEN [r EXCEPT !.alpaca_order_id = order_json.id,
                         !.status = order_json.status, !.raw = order_json]
          ELSE r : r \in l}
    ELSE l \cup {RowOf(order_json)}

(***************************************************************************)
(* submit_order: one POST /v2/orders and the recovery of its rejections.   *)
(* The result carries the ledger and broker after the call, whether the    *)
(* call raised, the order JSON returned, and the requests it issued.       *)
(***************************************************************************)
Outcome(l, b, raised, created, posts, gets, upserts) ==
    [ledger |-> l, broker |-> b, raised |-> raised, created |-> created,
     posts |-> posts, gets |-> gets, upserts |-> upserts]

\* resp.status_code == 422 and "client_order_id" in msg and "unique" in msg
is_unique_rejection_never(ans) == FALSE

is_unique_rejection(ans) == ans.post = "422_unique"

\* resp.status_code == 403 and body.code == 40310000 and body.existing_order_id
is_wash_trade_rejection_never(ans) == FALSE

is_wash_trade_rejection(ans) == ans.post = "403_wash"

submit_order(l, b, symbol, qty, side, client_order_id, ans) ==
    IF is_unique_rejection(ans)
    THEN IF ans.get = "ok"
         THEN Outcome(l, b, FALSE, fetch_order_by_client_id(b, client_order_id), 1, 1, 0)
         ELSE Outcome(l, b, TRUE, NoOrder, 1, 1, 0)
    ELSE IF is_wash_trade_rejection(ans)
    THEN IF ans.get = "ok"
         THEN LET existing_order == fetch_order_by_alpaca_id(b, ans.ref)
              IN Outcome(db_upsert_order(l, existing_order), b, FALSE,
                         existing_order, 1, 1, 1)
         ELSE Outcome(l, b, TRUE, NoOrder, 1, 1, 0)
    ELSE IF ans.post = "200"
    THEN LET o == NewOrder(b, symbol, qty, side, client_order_id)
         IN Outcome(l, Append(b, o), FALSE, o, 1, 0, 0)
    ELSE IF ans.post = "200_lost"
    THEN Outcome(l, Append(b, NewOrder(b, symbol, qty, side, client_order_id)),
                 TRUE, NoOrder, 1, 0, 0)
    ELSE Outcome(l, b, TRUE, NoOrder, 1, 0, 0)

(***************************************************************************)
(* execute_leg.                                                            *)
(***************************************************************************)
\* the dict execute_leg returns (missing entries are "" / 0)
Result(mode, alpaca_order_id, client_order_id, status, filled_qty, side, symbol) ==
    [mode |-> mode, alpaca_order_id |-> alpaca_order_id,
     client_order_id |-> client_order_id, status |-> status,
     filled_qty |-> filled_qty, side |-> side, symbol |-> symbol]

NoResult == Result("", "", "", "", 0, "", "")

LegOutcome(l, b, raised, r, posts, gets, upserts) ==
    [ledger |-> l, broker |-> b, raised |-> raised, r |-> r,
     posts |-> posts, gets |-> gets, upserts |-> upserts]

\* 1) the key is in the ledger: fetch the latest from the broker and upsert
leg_fetch_existing(l, b, client_order_id, existing, ans) ==
    IF ans.get = "ok"
    THEN LET latest == fetch_order_by_alpaca_id(b, existing[1])
         IN LegOutcome(db_upsert_order(l, latest), b, FALSE,
                       Result("fetch_existing", existing[1], client_order_id,
                              latest.status, latest.filled_qty, latest.side,
                              latest.symbol),
                       0, 1, 1)
    ELSE LegOutcome(l, b, TRUE, NoResult, 0, 1, 0)

\* 2) if not TRADING_ENABLED
kill_switch_blocks_never(te) == FALSE

kill_switch_blocks(te) == ~te

\* 4), 5) what execute_leg does with the order JSON submit_order returned
leg_record_created(client_order_id, s) ==
    IF s.created.client_order_id # client_order_id
    THEN LegOutcome(db_upsert_order(s.ledger, s.created), s.broker, FALSE,
                    Result("blocked_existing_open_order", s.created.id,
                           client_order_id, s.created.status,
                           s.created.filled_qty, s.created.side, s.created.symbol),
                    s.posts, s.gets, s.upserts + 1)
    ELSE LegOutcome(db_upsert_order(s.ledger, s.created), s.broker, FALSE,
                    Result("submitted_new", s.created.id, client_order_id,
                           s.created.status, s.created.filled_qty,
                           s.created.side, s.created.symbol),
                    s.posts, s.gets, s.upserts + 1)

execute_leg(l, b, te, pair_id, ts_iso, action, leg, symbol, qty, side, ans) ==
    LET client_order_id == ClientOrderIds[<<pair_id, ts_iso, action, leg, symbol>>]
        existing == db_find_by_client_id(l, client_order_id)
    IN IF existing # <<>>
       THEN leg_fetch_existing(l, b, client_order_id, existing, ans)
       ELSE IF kill_switch_blocks(te)
       THEN LegOutcome(l, b, FALSE,
                       Result("trading_disabled", "", client_order_id, "", 0, "", ""),
                       0, 0, 0)
       ELSE LET s == submit_order(l, b, symbol, qty, side, client_order_id, ans)
            IN IF s.raised
               THEN LegOutcome(s.ledger, s.broker, TRUE, NoResult,
                               s.posts, s.gets, s.upserts)
               ELSE leg_record_created(client_order_id, s)

\* the answers the broker can give to the requests of one execute_leg call
LegAnswers(l, b, te, client_order_id, symbol, side) ==
    IF RowsOf(l, client_order_id) # {}
    THEN {Answer("", "", g) : g \in {"ok", "fail"}}
    ELSE IF ~te THEN {Answer("", "", "")}
    ELSE PostAnswers(b, symbol, side, client_order_id)

(***************************************************************************)
(* Prices, positions and the risk gate (src/risk.py).  Prices are whole    *)
(* dollars, ages whole seconds, the hedge ratio is given in tenths.        *)
(***************************************************************************)
TradedSymbols == {"AAPL", "MSFT"}

NoPrice == [has |-> FALSE, age |-> 0, close |-> 0]
Price(age, close) == [has |-> TRUE, age |-> age, close |-> close]

\* limits of risk_config (the module is configuration outside src/)
MAX_ORDERS_PER_RUN == 4
MAX_GROSS_EXPOSURE == 5000
MAX_POSITION_VALUE_PER_SYMBOL == 3000
DATA_STALE_SECONDS == 60
BASE_NOTIONAL == 1000

Abs(x) == IF x < 0 THEN 0 - x ELSE x
Max(a, b) == IF a >= b THEN a ELSE b

\* the market situations the model draws from: prices per symbol and the
\* rows of the positions table
Markets ==
    {[prices |-> [s \in TradedSymbols |->
                    IF s = "AAPL" THEN Price(10, 500) ELSE Price(10, 1000)],
      positions |-> <<>>],
     [prices |-> [s \in TradedSymbols |->
                    IF s = "AAPL" THEN Price(10, 500) ELSE Price(61, 1000)],
      positions |-> <<>>],
     [prices |-> [s \in TradedSymbols |->
                    IF s = "AAPL" THEN Price(10, 500) ELSE NoPrice],
      positions |-> <<[symbol |-> "AAPL", qty |-> 0 - 7]>>],
     [prices |-> [s \in TradedSymbols |->
                    IF s = "AAPL" THEN Price(60, 500) ELSE Price(10, 1000)],
      positions |-> <<[symbol |-> "AAPL", qty |-> 2], [symbol |-> "MSFT", qty |-> 0 - 1]>>]}

\* the market situations of the sequential specification
SeqMarkets == {m \in Markets : m.positions = <<>>}

\* data_is_stale: <<stale, has_age>>; a symbol without a price ends the loop
RECURSIVE worst_age(_, _, _)
worst_age(m, symbols, acc) ==
    IF symbols = <<>> THEN acc
    ELSE worst_age(m, Tail(symbols), Max(acc, m.prices[Head(symbols)].age))

\* the rule with >= in place of >
data_is_stale_inclusive(m, symbols, stale_seconds) ==
    IF \E i \in DOMAIN symbols : ~m.prices[symbols[i]].has
    THEN TRUE
    ELSE worst_age(m, symbols, 0) >= stale_seconds

data_is_stale(m, symbols, stale_seconds) ==
    IF \E i \in DOMAIN symbols : ~m.prices[symbols[i]].has
    THEN TRUE
    ELSE worst_age(m, symbols, 0) > stale_seconds

RECURSIVE compute_gross_exposure(_, _)
compute_gross_exposure(m, positions) ==
    IF positions = <<>> THEN 0
    ELSE LET p == Head(positions)
             rest == compute_gross_exposure(m, Tail(positions))
         IN IF m.prices[p.symbol].has
            THEN Abs(p.qty) * m.prices[p.symbol].close + rest
            ELSE rest

\* |qty| * price of the first position row of the symbol; -1 is None
symbol_position_value(m, symbol) ==
    LET hits == SelectSeq(m.positions, LAMBDA p : p.symbol = symbol)
        qty_f == IF hits = <<>> THEN 0 ELSE Head(hits).qty
    IN IF ~m.prices[symbol].has THEN 0 - 1
       ELSE Abs(qty_f) * m.prices[symbol].close

\* the rule with <= in place of <
check_order_limits_inclusive(orders_submitted, max_orders_per_run) ==
    orders_submitted <= max_orders_per_run

check_order_limits(orders_submitted, max_orders_per_run) ==
    orders_submitted < max_orders_per_run

RECURSIVE symbol_reasons(_, _, _)
symbol_reasons(m, symbols, max_position_value_per_symbol) ==
    IF symbols = <<>> THEN <<>>
    ELSE LET v == symbol_position_value(m, Head(symbols))
             rest == symbol_reasons(m, Tail(symbols), max_position_value_per_symbol)
         IN IF v = 0 - 1 THEN <<"missing_price">> \o rest
            ELSE IF v > max_position_value_per_symbol
                 THEN <<"max_symbol_position">> \o rest
                 ELSE rest

\* a gate that stops at the first rule that fails
risk_check_first_reason(m, symbols_for_order, max_gross_exposure, max_position_value_per_symbol, max_orders_per_run, stale_seconds, orders_submitted_in_run) ==
    IF data_is_stale(m, symbols_for_order, stale_seconds) THEN <<"data_stale">>
    ELSE IF compute_gross_exposure(m, m.positions) > max_gross_exposure
    THEN <<"max_gross_exposure">>
    ELSE IF symbol_reasons(m, symbols_for_order, max_position_value_per_symbol) # <<>>
    THEN <<Head(symbol_reasons(m, symbols_for_order, max_position_value_per_symbol))>>
    ELSE IF ~check_order_limits(orders_submitted_in_run, max_orders_per_run)
    THEN <<"max_orders_per_run">>
    ELSE <<>>

\* risk_check: the list of reasons; allowed is reasons = <<>>
risk_check(m, symbols_for_order, max_gross_exposure, max_position_value_per_symbol, max_orders_per_run, stale_seconds, orders_submitted_in_run) ==
    (IF data_is_stale(m, symbols_for_order, stale_seconds)
     THEN <<"data_stale">> ELSE <<>>)
    \o (IF compute_gross_exposure(m, m.positions) > max_gross_exposure
        THEN <<"max_gross_exposure">> ELSE <<>>)
    \o symbol_reasons(m, symbols_for_order, max_position_value_per_symbol)
    \o (IF ~check_order_limits(orders_submitted_in_run, max_orders_per_run)
        THEN <<"max_orders_per_run">> ELSE <<>>)

\* latest close of the symbol (the caller has passed the risk gate)
latest_price(m, symbol) == m.prices[symbol].close

(***************************************************************************)
(* The pair orchestrator: cancel_order, flatten_if_filled and              *)
(* execute_pair_signal.                                                    *)
(***************************************************************************)
\* the mapping with the sides of the two actions exchanged
pair_action_to_legs_swapped(action) ==
    IF action = "ENTER_LONG" THEN <<"sell", "buy">>
    ELSE IF action = "ENTER_SHORT" THEN <<"buy", "sell">>
    ELSE <<>>

\* a mapping that trades on EXIT as well
pair_action_to_legs_with_exit(action) ==
    IF action = "ENTER_LONG" THEN <<"buy", "sell">>
    ELSE IF action \in {"ENTER_SHORT", "EXIT"} THEN <<"sell", "buy">>
    ELSE <<>>

\* <<side_leg1, side_leg2>>, or <<>> for None (HOLD / EXIT / unknown)
pair_action_to_legs(action) ==
    IF action = "ENTER_LONG" THEN <<"buy", "sell">>
    ELSE IF action = "ENTER_SHORT" THEN <<"sell", "buy">>
    ELSE <<>>

opposite_side(side) == IF side = "buy" THEN "sell" ELSE "buy"

IndexOfId(b, alpaca_order_id) == CHOOSE i \in DOMAIN b : b[i].id = alpaca_order_id

IsOpen(b, alpaca_order_id) == b[IndexOfId(b, alpaca_order_id)].status \in OpenStatuses

\* the broker after order alpaca_order_id has filled up to f shares
FillTo(b, alpaca_order_id, f) ==
    LET i == IndexOfId(b, alpaca_order_id)
    IN IF f = b[i].filled_qty THEN b
       ELSE [b EXCEPT ![i].filled_qty = f,
                      ![i].status = IF f = b[i].qty THEN "filled"
                                    ELSE "partially_filled"]

\* DELETE /v2/orders/{id}.  "204": the broker cancels the open order; "404";
\* "error": any other status, raise_for_status raises.
cancel_order(b, alpaca_order_id, cans) ==
    IF cans = "204"
    THEN [broker |-> [b EXCEPT ![IndexOfId(b, alpaca_order_id)].status = "canceled"],
          raised |-> FALSE]
    ELSE IF cans = "404" THEN [broker |-> b, raised |-> FALSE]
    ELSE [broker |-> b, raised |-> TRUE]

\* the broker cancels only an open order; an order it holds is never unknown
CancelAnswers(b, alpaca_order_id) ==
    (IF IsOpen(b, alpaca_order_id) THEN {"204"} ELSE {}) \cup {"error"}

flatten_client_id(alpaca_order_id, ts_raw, symbol, flatten_side, qty) ==
    LET core == FlattenCore(alpaca_order_id, ts_raw, symbol, flatten_side, qty)
        h == Prefix(sha1_hexdigest(core), 10)
    IN Prefix("statarb_" \o core \o "_" \o h, 48)

\* flatten_client_id tabulated over the orders the broker can hold
FlattenClientIds ==
    [t \in Range(FlattenDoms[1]) \X Symbols \X Sides \X (1..MaxQty) |->
        flatten_client_id(t[1], BrokerTime, t[2], t[3], t[4])] @@ <<>>

FlattenIdOf(o, flatten_side, qty) == FlattenClientIds[<<o.id, o.symbol, flatten_side, qty>>]

\* what flatten_if_filled returns (repair), with the state it leaves
Repair(l, b, raised, flattened, reason, filled_qty, flatten_side, flatten_order_id, posts, gets, upserts) ==
    [ledger |-> l, broker |-> b, raised |-> raised, flattened |-> flattened,
     reason |-> reason, filled_qty |-> filled_qty, flatten_side |-> flatten_side,
     flatten_order_id |-> flatten_order_id,
     posts |-> posts, gets |-> gets, upserts |-> upserts]

\* fa.get answers the GET of the order, fa.post the POST of the flatten order
flatten_if_filled(l, b, alpaca_order_id, fa) ==
    IF fa.get # "ok"
    THEN Repair(l, b, TRUE, FALSE, "", 0, "", "", 0, 1, 0)
    ELSE LET o == fetch_order_by_alpaca_id(b, alpaca_order_id)
             l1 == db_upsert_order(l, o)
             filled_qty == o.filled_qty
             flatten_side == opposite_side(o.side)
         IN IF filled_qty <= 0
            THEN Repair(l1, b, FALSE, FALSE, "no_fills", 0, "", "", 0, 1, 1)
            ELSE LET s == submit_order(l1, b, o.symbol, filled_qty, flatten_side,
                                       FlattenIdOf(o, flatten_side, filled_qty),
                                       fa.post)
                 IN IF s.raised
                    THEN Repair(s.ledger, s.broker, TRUE, FALSE, "", 0, "", "",
                                s.posts, 1 + s.gets, 1 + s.upserts)
                    ELSE Repair(db_upsert_order(s.ledger, s.created), s.broker,
                                FALSE, TRUE, "", filled_qty, flatten_side,
                                s.created.id,
                                s.posts, 1 + s.gets, 2 + s.upserts)

NoAnswer == Answer("", "", "")

FlattenAnswers(b, alpaca_order_id) ==
    LET o == fetch_order_by_alpaca_id(b, alpaca_order_id)
        flatten_side == opposite_side(o.side)
    IN {[get |-> "fail", post |-> NoAnswer]}
       \cup (IF o.filled_qty <= 0
             THEN {[get |-> "ok", post |-> NoAnswer]}
             ELSE {[get |-> "ok", post |-> pa] :
                     pa \in PostAnswers(b, o.symbol, flatten_side,
                                        FlattenIdOf(o, flatten_side, o.filled_qty))})

\* the signals the model executes: a row of signals joined with its pair
Decision(pair_id, ts_iso, action, symbol_1, symbol_2, hedge_ratio) ==
    [pair_id |-> pair_id, ts_iso |-> ts_iso, action |-> action,
     symbol_1 |-> symbol_1, symbol_2 |-> symbol_2, hedge_ratio |-> hedge_ratio]

Decisions ==
    {Decision(1, "2024-01-10T00:00:00", "ENTER_LONG", "AAPL", "MSFT", 10)}

\* qty1 = max(1, int(BASE_NOTIONAL / price1))
qty_leg1(m, d) == Max(1, BASE_NOTIONAL \div latest_price(m, d.symbol_1))

\* the quantity of leg 2 without abs()
qty_leg2_signed(m, d) ==
    Max(1, (d.hedge_ratio * BASE_NOTIONAL) \div (10 * latest_price(m, d.symbol_2)))

\* qty2 = max(1, int(abs(hedge_ratio) * BASE_NOTIONAL / price2)), ratio in tenths
qty_leg2(m, d) ==
    Max(1, (Abs(d.hedge_ratio) * BASE_NOTIONAL) \div (10 * latest_price(m, d.symbol_2)))

KeyOf(d, leg) ==
    ClientOrderIds[<<d.pair_id, d.ts_iso, d.action, leg,
                     IF leg = "L1" THEN d.symbol_1 ELSE d.symbol_2>>]

\* if not TRADING_ENABLED: return blocked_pair (the last condition of the gate)
pair_kill_switch_gate(te) == ~te

\* a gate that asks for room for one order only
pair_gate_one_unit(te, m, d, orders_submitted_in_run, open_symbols_with_orders) ==
    IF orders_submitted_in_run + 1 > MAX_ORDERS_PER_RUN THEN "max_orders_pair"
    ELSE IF pair_action_to_legs(d.action) = <<>> THEN "no_action"
    ELSE IF d.symbol_1 \in open_symbols_with_orders
            \/ d.symbol_2 \in open_symbols_with_orders THEN "open_orders_exist"
    ELSE IF risk_check(m, <<d.symbol_1, d.symbol_2>>, MAX_GROSS_EXPOSURE,
                       MAX_POSITION_VALUE_PER_SYMBOL, MAX_ORDERS_PER_RUN,
                       DATA_STALE_SECONDS, orders_submitted_in_run) # <<>> THEN "risk"
    ELSE IF pair_kill_switch_gate(te) THEN "trading_disabled"
    ELSE ""

\* the gate without the risk_check of lines 543-561
pair_gate_without_risk(te, m, d, orders_submitted_in_run, open_symbols_with_orders) ==
    IF orders_submitted_in_run + 2 > MAX_ORDERS_PER_RUN THEN "max_orders_pair"
    ELSE IF pair_action_to_legs(d.action) = <<>> THEN "no_action"
    ELSE IF d.symbol_1 \in open_symbols_with_orders
            \/ d.symbol_2 \in open_symbols_with_orders THEN "open_orders_exist"
    ELSE IF pair_kill_switch_gate(te) THEN "trading_disabled"
    ELSE ""

\* The pair-atomic gate: "" when the pair may trade, else the mode and reason
\* execute_pair_signal returns.
pair_gate(te, m, d, orders_submitted_in_run, open_symbols_with_orders) ==
    IF orders_submitted_in_run + 2 > MAX_ORDERS_PER_RUN THEN "max_orders_pair"
    ELSE IF pair_action_to_legs(d.action) = <<>> THEN "no_action"
    ELSE IF d.symbol_1 \in open_symbols_with_orders
            \/ d.symbol_2 \in open_symbols_with_orders THEN "open_orders_exist"
    ELSE IF orders_submitted_in_run + 2 > MAX_ORDERS_PER_RUN THEN "max_orders_pair"
    ELSE IF risk_check(m, <<d.symbol_1, d.symbol_2>>, MAX_GROSS_EXPOSURE,
                       MAX_POSITION_VALUE_PER_SYMBOL, MAX_ORDERS_PER_RUN,
                       DATA_STALE_SECONDS, orders_submitted_in_run) # <<>> THEN "risk"
    ELSE IF pair_kill_switch_gate(te) THEN "trading_disabled"
    ELSE ""

\* One leg as the orchestrator saw it.
LegSeen(called, o, ans) ==
    [called |-> called, raised |-> o.raised, r |-> o.r, ans |-> ans]

NoLeg == [called |-> FALSE, raised |-> FALSE, r |-> NoResult, ans |-> NoAnswer]

NoRepair == Repair({}, <<>>, FALSE, FALSE, "none", 0, "", "", 0, 0, 0)

\* repair as logged: None when flatten_if_filled raised or was not called
RepairSeen(called, rep) ==
    IF called
    THEN [called |-> TRUE, raised |-> rep.raised, flattened |-> rep.flattened,
          reason |-> rep.reason, filled_qty |-> rep.filled_qty,
          flatten_side |-> rep.flatten_side,
          flatten_order_id |-> rep.flatten_order_id]
    ELSE [called |-> FALSE, raised |-> FALSE, flattened |-> FALSE, reason |-> "",
          filled_qty |-> 0, flatten_side |-> "", flatten_order_id |-> ""]

PairOutcome(l, b, raised, mode, reason, count, leg1, leg2, cancel, repair, posts, gets, upserts, cancels) ==
    [ledger |-> l, broker |-> b, raised |-> raised, mode |-> mode,
     reason |-> reason, orders_submitted_in_run |-> count,
     leg1 |-> leg1, leg2 |-> leg2, cancel |-> cancel, repair |-> repair,
     posts |-> posts, gets |-> gets, upserts |-> upserts, cancels |-> cancels]

\* the broker's answers and leg A's fills during one execute_pair_signal call
Script(a1, a2, fill, cancel, fa) ==
    [a1 |-> a1, a2 |-> a2, fill |-> fill, cancel |-> cancel, fa |-> fa]

NoFlattenAnswer == [get |-> "", post |-> NoAnswer]

\* leg B raised: cancel leg A and flatten what filled (the except branch).
\* sc.fill is leg A's filled quantity when the cancel request arrives.
pair_compensate(o1, o2, sc) ==
    LET id == o1.r.alpaca_order_id
        bf == FillTo(o2.broker, id, sc.fill)
        c == cancel_order(bf, id, sc.cancel)
    IN flatten_if_filled(o2.ledger, c.broker, id, sc.fa)

\* the test without leg A's mode: any leg A that names a broker order
compensation_applies_any_mode(o1) == o1.r.alpaca_order_id # ""

\* if r1.get("mode") == "submitted_new" and r1.get("alpaca_order_id")
compensation_applies(o1) ==
    o1.r.mode = "submitted_new" /\ o1.r.alpaca_order_id # ""

\* the element of a singleton set: Only({e(x) : x \in {v}}) computes v once
Only(S) == CHOOSE x \in S : TRUE

\* the same without the two additions to orders_submitted_in_run
pair_after_leg2_count_kept(o1, o2, orders_submitted_in_run, sc) ==
    LET n1 == orders_submitted_in_run
        n2 == orders_submitted_in_run
    IN IF ~o2.raised
       THEN PairOutcome(o2.ledger, o2.broker, FALSE, "pair_executed", "", n2,
                        LegSeen(TRUE, o1, sc.a1), LegSeen(TRUE, o2, sc.a2), "",
                        RepairSeen(FALSE, NoRepair),
                        o1.posts + o2.posts, o1.gets + o2.gets,
                        o1.upserts + o2.upserts, 0)
       ELSE IF compensation_applies(o1)
       THEN Only({PairOutcome(rep.ledger, rep.broker, TRUE, "", "", n1,
                              LegSeen(TRUE, o1, sc.a1), LegSeen(TRUE, o2, sc.a2),
                              sc.cancel, RepairSeen(TRUE, rep),
                              o1.posts + o2.posts + rep.posts,
                              o1.gets + o2.gets + rep.gets,
                              o1.upserts + o2.upserts + rep.upserts, 1)
                  : rep \in {pair_compensate(o1, o2, sc)}})
       ELSE PairOutcome(o2.ledger, o2.broker, TRUE, "", "", n1,
                        LegSeen(TRUE, o1, sc.a1), LegSeen(TRUE, o2, sc.a2), "",
                        RepairSeen(FALSE, NoRepair),
                        o1.posts + o2.posts, o1.gets + o2.gets,
                        o1.upserts + o2.upserts, 0)

\* the except branch and the return of execute_pair_signal, both legs called
pair_after_leg2(o1, o2, orders_submitted_in_run, sc) ==
    LET n1 == orders_submitted_in_run
                + (IF o1.r.mode = "submitted_new" THEN 1 ELSE 0)
        n2 == n1 + (IF o2.r.mode = "submitted_new" THEN 1 ELSE 0)
    IN IF ~o2.raised
       THEN PairOutcome(o2.ledger, o2.broker, FALSE, "pair_executed", "", n2,
                        LegSeen(TRUE, o1, sc.a1), LegSeen(TRUE, o2, sc.a2), "",
                        RepairSeen(FALSE, NoRepair),
                        o1.posts + o2.posts, o1.gets + o2.gets,
                        o1.upserts + o2.upserts, 0)
       ELSE IF compensation_applies(o1)
       THEN Only({PairOutcome(rep.ledger, rep.broker, TRUE, "", "", n1,
                              LegSeen(TRUE, o1, sc.a1), LegSeen(TRUE, o2, sc.a2),
                              sc.cancel, RepairSeen(TRUE, rep),
                              o1.posts + o2.posts + rep.posts,
                              o1.gets + o2.gets + rep.gets,
                              o1.upserts + o2.upserts + rep.upserts, 1)
                  : rep \in {pair_compensate(o1, o2, sc)}})
       ELSE PairOutcome(o2.ledger, o2.broker, TRUE, "", "", n1,
                        LegSeen(TRUE, o1, sc.a1), LegSeen(TRUE, o2, sc.a2), "",
                        RepairSeen(FALSE, NoRepair),
                        o1.posts + o2.posts, o1.gets + o2.gets,
                        o1.upserts + o2.upserts, 0)

\* leg 1 has returned or raised: a raise of leg 1 propagates, else leg 2 runs
pair_after_leg1(o1, te, m, d, orders_submitted_in_run, sc) ==
    IF o1.raised
    THEN PairOutcome(o1.ledger, o1.broker, TRUE, "", "", orders_submitted_in_run,
                     LegSeen(TRUE, o1, sc.a1), NoLeg, "",
                     RepairSeen(FALSE, NoRepair),
                     o1.posts, o1.gets, o1.upserts, 0)
    ELSE Only({pair_after_leg2(o1, o2, orders_submitted_in_run, sc)
               : o2 \in {execute_leg(o1.ledger, o1.broker, te, d.pair_id, d.ts_iso,
                                     d.action, "L2", d.symbol_2, qty_leg2(m, d),
                                     pair_action_to_legs(d.action)[2], sc.a2)}})

execute_pair_signal(l, b, te, m, d, orders_submitted_in_run, open_symbols_with_orders, sc) ==
    LET gate == pair_gate(te, m, d, orders_submitted_in_run, open_symbols_with_orders)
    IN IF gate = "no_action"
       THEN PairOutcome(l, b, FALSE, "no_action", "", orders_submitted_in_run,
                        NoLeg, NoLeg, "", RepairSeen(FALSE, NoRepair), 0, 0, 0, 0)
       ELSE IF gate # ""
       THEN PairOutcome(l, b, FALSE, "blocked_pair", gate, orders_submitted_in_run,
                        NoLeg, NoLeg, "", RepairSeen(FALSE, NoRepair), 0, 0, 0, 0)
       ELSE Only({pair_after_leg1(o1, te, m, d, orders_submitted_in_run, sc)
                  : o1 \in {execute_leg(l, b, te, d.pair_id, d.ts_iso, d.action,
                                        "L1", d.symbol_1, qty_leg1(m, d),
                                        pair_action_to_legs(d.action)[1], sc.a1)}})

\* The scripts the environment can play against one call: each answer is one
\* the broker can give in the state the request finds.
CancelScripts(o2, id, a1, a2, f) ==
    UNION {UNION {{Script(a1, a2, f, c, fa) :
                     fa \in FlattenAnswers(cancel_order(bf, id, c).broker, id)}
                  : c \in CancelAnswers(bf, id)}
           : bf \in {FillTo(o2.broker, id, f)}}

CompensationScripts(o1, o2, a1, a2) ==
    LET id == o1.r.alpaca_order_id
        o == fetch_order_by_alpaca_id(o2.broker, id)
        fills == IF o.status \in OpenStatuses THEN o.filled_qty..o.qty
                 ELSE {o.filled_qty}
    IN UNION {CancelScripts(o2, id, a1, a2, f) : f \in fills}

Leg2Scripts(o1, te, m, d, a1) ==
    LET legs == pair_action_to_legs(d.action)
    IN UNION {UNION {IF o2.raised /\ compensation_applies(o1)
                     THEN CompensationScripts(o1, o2, a1, a2)
                     ELSE {Script(a1, a2, 0, "", NoFlattenAnswer)}
                     : o2 \in {execute_leg(o1.ledger, o1.broker, te, d.pair_id,
                                           d.ts_iso, d.action, "L2", d.symbol_2,
                                           qty_leg2(m, d), legs[2], a2)}}
              : a2 \in LegAnswers(o1.ledger, o1.broker, te, KeyOf(d, "L2"),
                                  d.symbol_2, legs[2])}

PairScripts(l, b, te, m, d, orders_submitted_in_run, open_symbols_with_orders) ==
    IF pair_gate(te, m, d, orders_submitted_in_run, open_symbols_with_orders) # ""
    THEN {Script(NoAnswer, NoAnswer, 0, "", NoFlattenAnswer)}
    ELSE LET legs == pair_action_to_legs(d.action)
         IN UNION {UNION {IF o1.raised
                          THEN {Script(a1, NoAnswer, 0, "", NoFlattenAnswer)}
                          ELSE Leg2Scripts(o1, te, m, d, a1)
                          : o1 \in {execute_leg(l, b, te, d.pair_id, d.ts_iso,
                                                d.action, "L1", d.symbol_1,
                                                qty_leg1(m, d), legs[1], a1)}}
                   : a1 \in LegAnswers(l, b, te, KeyOf(d, "L1"), d.symbol_1, legs[1])}

(***************************************************************************)
(* What one call does, in the order the code does it: the requests to the  *)
(* broker ("POST", "GET", "DELETE"), the evaluation of the risk gate       *)
(* ("risk_check"), the log records ("log:" and the event name) and a final *)
(* "raise" when the call ends with an exception.                           *)
(***************************************************************************)
IsLog(e) == Prefix(e, 4) = "log:"

\* the requests of submit_order: the POST, then the GET a rejection leads to
submit_events(ans) ==
    <<"POST">> \o (IF ans.get # "" THEN <<"GET">> ELSE <<>>)
    \o (IF ans.post = "403_wash" /\ ans.get = "ok"
        THEN <<"log:exec_leg_blocked_wash_trade">> ELSE <<>>)

\* execute_leg, as far as it got; leg is the leg as the caller saw it
leg_events(leg) ==
    IF ~leg.called THEN <<>>
    ELSE <<"log:exec_leg_start">>
         \o (IF leg.ans.post = "" /\ leg.ans.get # ""
             THEN <<"log:exec_leg_fetch_existing", "GET">>
             ELSE IF leg.ans.post = ""
             THEN <<"log:exec_leg_kill_switch_block">>
             ELSE submit_events(leg.ans)
                  \o (IF leg.r.mode = "blocked_existing_open_order"
                      THEN <<"log:exec_leg_blocked_existing_open_order">>
                      ELSE IF leg.r.mode = "submitted_new"
                      THEN <<"log:exec_leg_submitted">>
                      ELSE <<>>))

\* flatten_if_filled: the GET of the order, the flatten order's submit_order
flatten_events(repair, fa) ==
    IF ~repair.called THEN <<>>
    ELSE <<"GET">>
         \o (IF fa.get = "ok" /\ fa.post # NoAnswer
             THEN submit_events(fa.post) ELSE <<>>)
         \o (IF repair.flattened THEN <<"log:exec_flatten_submitted">> ELSE <<>>)

\* the except branch of execute_pair_signal: cancel (its failure is passed
\* over), flatten (its failure is logged), the log of leg 2's error, raise
compensation_events(o, sc) ==
    (IF o.cancels > 0
     THEN <<"DELETE">> \o flatten_events(o.repair, sc.fa)
          \o (IF o.repair.raised THEN <<"log:exec_repair_failed">> ELSE <<>>)
     ELSE <<>>)
    \o <<"log:exec_pair_leg2_failed", "raise">>

\* execute_pair_signal with outcome o under script sc
pair_events(o, sc) ==
    IF o.mode = "no_action" THEN <<>>
    ELSE IF o.mode = "blocked_pair"
    THEN IF o.reason = "max_orders_pair" THEN <<>>
         ELSE IF o.reason = "open_orders_exist"
         THEN <<"log:exec_pair_block_open_orders">>
         ELSE IF o.reason = "risk"
         THEN <<"risk_check", "log:exec_pair_risk_block">>
         ELSE <<"risk_check">>
    ELSE <<"risk_check">> \o leg_events(o.leg1)
         \o (IF o.leg1.raised THEN <<"raise">>
             ELSE leg_events(o.leg2)
                  \o (IF o.leg2.raised THEN compensation_events(o, sc) ELSE <<>>))

(***************************************************************************)
(* The sequential specification: calls of execute_leg and                  *)
(* execute_pair_signal, one at a time, against a broker whose orders fill  *)
(* and which other sources trade on as well.                               *)
(***************************************************************************)
NoPairInfo ==
    [reason |-> "", orders_submitted_in_run |-> 0, leg1 |-> NoLeg, leg2 |-> NoLeg,
     cancel |-> "", repair |-> RepairSeen(FALSE, NoRepair), fill |-> 0]

\* what is remembered of a call: its arguments, the kill switch it ran under,
\* the broker's answers, its result, the requests it issued, and the ledger
\* and the broker before (lb, bb) and after (la, ba) it
NoCall ==
    [op |-> "", args |-> <<>>, key |-> "", te |-> TRUE, ans |-> NoAnswer,
     raised |-> FALSE, mode |-> "", r |-> NoResult,
     posts |-> 0, gets |-> 0, upserts |-> 0, cancels |-> 0,
     lb |-> {}, bb |-> <<>>, la |-> {}, ba |-> <<>>, pair |-> NoPairInfo,
     trace |-> <<>>]

\* what is remembered of the call before the last one
Summary(c) == [op |-> c.op, args |-> c.args, mode |-> c.mode, raised |-> c.raised]

\* the arguments execute_pair_signal passes for a leg of d
LegArgs(m, d, leg) ==
    LET legs == pair_action_to_legs(d.action)
    IN IF leg = "L1"
       THEN <<d.pair_id, d.ts_iso, d.action, "L1", d.symbol_1,
              IF m.prices[d.symbol_1].has THEN qty_leg1(m, d) ELSE 1, legs[1]>>
       ELSE <<d.pair_id, d.ts_iso, d.action, "L2", d.symbol_2,
              IF m.prices[d.symbol_2].has THEN qty_leg2(m, d) ELSE 1, legs[2]>>

IdleRuns == [i \in {1, 2} |-> [pc |-> "idle"]]

InitSeq ==
    /\ ledger = {}
    /\ broker = <<>>
    /\ last = NoCall
    /\ prev = Summary(NoCall)
    /\ ncalls = 0

InitKeyIdle ==
    /\ kin = <<>>
    /\ kout = <<>>

\* no sizing and no call of request_json under study, no dead letters
\* no throttled request, no sync of fills and no job runner under study
InitOthersIdle ==
    /\ throttle = [pc |-> "idle"]
    /\ sync = [pc |-> "idle"]
    /\ runner = [pc |-> "idle"]

\* no sizing and no call of request_json under study, no dead letters
InitPureIdle ==
    /\ sz = <<>>
    /\ http = [pc |-> "idle"]
    /\ dlq = <<>>
    /\ InitOthersIdle

\* no risk_check under study, no run of the main block
InitIdle ==
    /\ rin = <<>>
    /\ rout = <<>>
    /\ job = [pc |-> "idle"]

Init ==
    /\ InitPureIdle
    /\ InitSeq
    /\ TRADING_ENABLED \in BOOLEAN
    /\ market \in SeqMarkets
    /\ runs = IdleRuns
    /\ InitKeyIdle
    /\ InitIdle

\* a direct call of execute_leg for a leg of decision d
ExecuteLegCall(d, leg) ==
    /\ ncalls < MaxCalls
    /\ LET a == LegArgs(market, d, leg)
           key == KeyOf(d, leg)
       IN \E ans \in LegAnswers(ledger, broker, TRADING_ENABLED, key, a[5], a[7]) :
            \E o \in {execute_leg(ledger, broker, TRADING_ENABLED,
                                  a[1], a[2], a[3], a[4], a[5], a[6], a[7], ans)} :
               /\ ledger' = o.ledger
               /\ broker' = o.broker
               /\ last' = [NoCall EXCEPT !.op = "execute_leg", !.args = a,
                             !.key = key, !.te = TRADING_ENABLED, !.ans = ans,
                             !.raised = o.raised, !.mode = o.r.mode, !.r = o.r,
                             !.posts = o.posts, !.gets = o.gets,
                             !.upserts = o.upserts,
                             !.lb = ledger, !.bb = broker,
                             !.la = o.ledger, !.ba = o.broker,
                             !.trace = leg_events(LegSeen(TRUE, o, ans))
                                       \o (IF o.raised THEN <<"raise">> ELSE <<>>)]
    /\ prev' = Summary(last)
    /\ ncalls' = ncalls + 1
    /\ UNCHANGED <<TRADING_ENABLED, market, runs, kin, kout, rin, rout, job, sz, http, dlq, throttle, sync, runner>>

\* symbols with an open order at the broker (fetch_open_order_symbols)
OpenSymbols(b) == {b[i].symbol : i \in {j \in DOMAIN b : b[j].status \in OpenStatuses}}

\* what is remembered of a call of execute_pair_signal with outcome o
PairCallRecord(d, n, open, o, sc) ==
    [NoCall EXCEPT !.op = "execute_pair_signal",
                   !.args = <<d, n, open>>, !.te = TRADING_ENABLED,
                   !.raised = o.raised, !.mode = o.mode,
                   !.posts = o.posts, !.gets = o.gets,
                   !.upserts = o.upserts, !.cancels = o.cancels,
                   !.lb = ledger, !.bb = broker,
                   !.la = o.ledger, !.ba = o.broker,
                   !.pair = [reason |-> o.reason,
                             orders_submitted_in_run |-> o.orders_submitted_in_run,
                             leg1 |-> o.leg1, leg2 |-> o.leg2,
                             cancel |-> o.cancel, repair |-> o.repair,
                             fill |-> sc.fill],
                   !.trace = pair_events(o, sc)]

\* a call of execute_pair_signal for decision d with n orders already
\* submitted in the run and an open-order snapshot
ExecutePairSignalCall(d, n, open) ==
    /\ ncalls < MaxCalls
    /\ \E sc \in PairScripts(ledger, broker, TRADING_ENABLED, market, d, n, open) :
         \E o \in {execute_pair_signal(ledger, broker, TRADING_ENABLED, market,
                                        d, n, open, sc)} :
            /\ ledger' = o.ledger
            /\ broker' = o.broker
            /\ last' = PairCallRecord(d, n, open, o, sc)
    /\ prev' = Summary(last)
    /\ ncalls' = ncalls + 1
    /\ UNCHANGED <<TRADING_ENABLED, market, runs, kin, kout, rin, rout, job, sz, http, dlq, throttle, sync, runner>>

\* the market fills part or all of an open order
BrokerFill(i, f) ==
    /\ ncalls < MaxCalls
    /\ i \in DOMAIN broker
    /\ broker[i].status \in OpenStatuses
    /\ f \in (broker[i].filled_qty + 1)..broker[i].qty
    /\ broker' = FillTo(broker, broker[i].id, f)
    /\ UNCHANGED <<ledger, TRADING_ENABLED, market, last, prev, ncalls, runs, kin, kout, rin, rout, job, sz, http, dlq, throttle, sync, runner>>

IsForeign(o) == Prefix(o.client_order_id, 7) = "manual-"

\* another source (a person, another program) places an order on the account
ForeignOrder(symbol, side) ==
    /\ ncalls < MaxCalls
    /\ Len(broker) < MaxBrokerOrders
    /\ Cardinality({i \in DOMAIN broker : IsForeign(broker[i])}) < MaxForeign
    /\ broker' = Append(broker, NewOrder(broker, symbol, 1, side,
                                         "manual-" \o ToString(Len(broker) + 1)))
    /\ UNCHANGED <<ledger, TRADING_ENABLED, market, last, prev, ncalls, runs, kin, kout, rin, rout, job, sz, http, dlq, throttle, sync, runner>>

\* the process is restarted with another TRADING_ENABLED setting
SetKillSwitch ==
    /\ ncalls < MaxCalls
    /\ TRADING_ENABLED' = ~TRADING_ENABLED
    /\ UNCHANGED <<ledger, broker, market, last, prev, ncalls, runs, kin, kout, rin, rout, job, sz, http, dlq, throttle, sync, runner>>

\* the counts and snapshots a caller may pass to execute_pair_signal
CountInputs == {0, MAX_ORDERS_PER_RUN - 1}
SnapshotInputs(b) == {{}, OpenSymbols(b)}

Next ==
    \/ \E d \in Decisions, leg \in Legs : ExecuteLegCall(d, leg)
    \/ \E d \in Decisions, n \in CountInputs, open \in SnapshotInputs(broker) :
         ExecutePairSignalCall(d, n, open)
    \/ \E i \in 1..MaxBrokerOrders, f \in 1..MaxQty : BrokerFill(i, f)
    \/ \E symbol \in TradedSymbols, side \in Sides : ForeignOrder(symbol, side)
    \/ SetKillSwitch

Spec == Init /\ [][Next]_vars

(***************************************************************************)
(* Properties of execute_leg, read off the last call (last) and the call   *)
(* before it (prev).                                                       *)
(***************************************************************************)
LegCalled == last.op = "execute_leg"

\* the ledger held a row for the key when the last call began
HadRow == RowsOf(last.lb, last.key) # {}

\* C1: whenever the ledger already holds a row for the key of a leg,
\* execute_leg issues no POST /v2/orders and exactly one GET, by the broker id
\* of that row, whatever the kill switch; when the GET is answered it upserts
\* the broker's current record under the key and returns mode fetch_existing.
C1_RerunSafety ==
    (LegCalled /\ HadRow) =>
        /\ last.posts = 0
        /\ last.gets = 1
        /\ last.ba = last.bb
        /\ last.ans.get = "ok" =>
             /\ ~last.raised
             /\ last.mode = "fetch_existing"
             /\ last.upserts = 1
             /\ \E r \in RowsOf(last.lb, last.key) :
                  /\ last.r.alpaca_order_id = r.alpaca_order_id
                  /\ RowsOf(last.la, last.key)
                       = {RowOf(fetch_order_by_alpaca_id(last.bb, r.alpaca_order_id))}

\* C1 happens: a re-run under a disabled kill switch that refreshed a row the
\* broker had filled since.
C1_Witness ==
    /\ LegCalled /\ HadRow /\ ~last.te
    /\ last.mode = "fetch_existing"
    /\ last.la # last.lb

\* two consecutive execute_leg calls with identical arguments, the first of
\* which returned
Consecutive ==
    /\ LegCalled
    /\ prev.op = "execute_leg"
    /\ prev.args = last.args
    /\ ~prev.raised

\* C2 as amended: after a first call that returned submitted_new the second
\* call with the same arguments issues no POST and, its GET answered, returns
\* fetch_existing; after a first call that returned
\* blocked_existing_open_order the ledger holds no row under the leg's key,
\* and the second call, the kill switch on, issues a POST again.
C2_SecondCallAmended ==
    Consecutive =>
        /\ prev.mode = "submitted_new" =>
             /\ last.posts = 0
             /\ last.ans.get = "ok" => ~last.raised /\ last.mode = "fetch_existing"
        /\ prev.mode = "blocked_existing_open_order" =>
             /\ ~HadRow
             /\ last.te => last.posts = 1

\* C2 happens: submitted_new, then fetch_existing without a POST.
C2_Witness ==
    /\ Consecutive
    /\ prev.mode = "submitted_new"
    /\ last.mode = "fetch_existing"
    /\ last.posts = 0

\* C2 as stated: the second call makes no POST and returns fetch_existing
\* also after a first call that returned blocked_existing_open_order.
C2_AsStated ==
    (Consecutive /\ prev.mode \in {"submitted_new", "blocked_existing_open_order"}) =>
        /\ last.posts = 0
        /\ ~last.raised => last.mode = "fetch_existing"

\* C5: with the kill switch off, execute_leg for a key that is not in the
\* ledger returns trading_disabled, sends no request to the broker and leaves
\* the ledger as it was; and an execute_pair_signal call issues no POST
\* (entry leg or flatten) and creates no order.
C5_KillSwitchOff ==
    /\ (LegCalled /\ ~last.te /\ ~HadRow) =>
         /\ ~last.raised
         /\ last.mode = "trading_disabled"
         /\ last.posts = 0 /\ last.gets = 0 /\ last.upserts = 0
         /\ last.la = last.lb
         /\ last.ba = last.bb
    /\ (last.op = "execute_pair_signal" /\ ~last.te) =>
         /\ last.posts = 0
         /\ last.ba = last.bb

\* C5 happens: a leg whose order is at the broker but not in the ledger is
\* executed with the kill switch off.
C5_Witness ==
    /\ LegCalled /\ ~last.te /\ ~HadRow
    /\ BrokerHasClientId(last.bb, last.key)
    /\ last.mode = "trading_disabled"

\* C7: when the broker rejects the submission of a leg as a duplicate client
\* order id, execute_leg has made one POST and makes no other, creates no
\* order, and, the GET by client order id answered, does not raise and
\* persists that order in the ledger under the key.
C7_DuplicateRecovered ==
    (LegCalled /\ last.ans.post = "422_unique") =>
        /\ ~HadRow
        /\ last.posts = 1
        /\ last.gets = 1
        /\ last.ba = last.bb
        /\ last.ans.get = "ok" =>
             /\ ~last.raised
             /\ \E i \in OrdersOfKey(last.bb, last.key) :
                  /\ last.r.alpaca_order_id = last.bb[i].id
                  /\ RowsOf(last.la, last.key) = {RowOf(last.bb[i])}

\* C7 happens: the duplicate rejection of a leg whose order had filled.
C7_Witness ==
    /\ LegCalled /\ last.ans.post = "422_unique" /\ ~last.raised
    /\ \E r \in RowsOf(last.la, last.key) : r.status = "filled"

\* C8 as stated: a duplicate-client-id rejection is reported by execute_leg
\* as mode fetch_existing, not submitted_new.
C8_DuplicateIsFetchExisting ==
    (LegCalled /\ last.ans.post = "422_unique" /\ ~last.raised) =>
        last.mode = "fetch_existing"

\* C9: when the broker rejects the submission of a leg with the wash-trade
\* guard and names the existing order, execute_leg creates no order and no
\* row under the leg's key and, the GET of the named order answered, does not
\* raise, persists that order and returns blocked_existing_open_order.
C9_WashTradeBlocked ==
    (LegCalled /\ last.ans.post = "403_wash") =>
        /\ last.posts = 1
        /\ last.gets = 1
        /\ last.ba = last.bb
        /\ RowsOf(last.la, last.key) = {}
        /\ last.ans.get = "ok" =>
             /\ ~last.raised
             /\ last.mode = "blocked_existing_open_order"
             /\ last.r.alpaca_order_id = last.ans.ref
             /\ RowOf(fetch_order_by_alpaca_id(last.bb, last.ans.ref)) \in last.la

\* C9 happens: a leg blocked by an open order of another source, which the
\* ledger did not know.
C9_Witness ==
    /\ LegCalled /\ last.ans.post = "403_wash" /\ ~last.raised
    /\ last.mode = "blocked_existing_open_order"
    /\ last.la # last.lb

(***************************************************************************)
(* Properties of execute_pair_signal.                                      *)
(***************************************************************************)
PairCalled == last.op = "execute_pair_signal"

\* C4 as stated, for the attempts whose cancel and flatten requests the
\* broker answered: leg A was submitted, leg B raised and leg A had filled
\* p.fill > 0 shares; then the call created an order on the opposite side of
\* leg A, for leg A's symbol and that quantity.
C4_CompensationInvariant ==
    LET p == last.pair
    IN (/\ PairCalled
        /\ p.leg1.r.mode = "submitted_new"
        /\ p.leg2.called /\ p.leg2.raised
        /\ p.fill > 0
        /\ p.repair.called /\ ~p.repair.raised) =>
           \E i \in DOMAIN last.ba \ DOMAIN last.bb :
               /\ last.ba[i].symbol = p.leg1.r.symbol
               /\ last.ba[i].side = opposite_side(p.leg1.r.side)
               /\ last.ba[i].qty = p.fill

\* C6 as stated, for execute_pair_signal: a decision both of whose legs are
\* in the ledger, and which the other gates let pass, is re-run with the
\* kill switch off; the call fetches each leg from the broker and upserts it.
C6_PairRerunReconciles ==
    (/\ PairCalled /\ ~last.te
     /\ RowsOf(last.lb, KeyOf(last.args[1], "L1")) # {}
     /\ RowsOf(last.lb, KeyOf(last.args[1], "L2")) # {}
     /\ pair_gate(TRUE, market, last.args[1], last.args[2], last.args[3]) = "") =>
        /\ last.gets = 2
        /\ last.upserts = 2

(***************************************************************************)
(* Two overlapping runs execute the same leg.  Each run takes the steps of *)
(* execute_leg one at a time: the ledger lookup, the GET of a known order  *)
(* or the submission, and the ledger write.  The broker answers every      *)
(* request (no transport failure), and fills the order meanwhile.          *)
(***************************************************************************)
RaceDecision == CHOOSE d \in Decisions : TRUE

RaceArgs == LegArgs(market, RaceDecision, runs[1].leg)

RaceKey == KeyOf(RaceDecision, runs[1].leg)

RaceRun(leg) ==
    [pc |-> "lookup", leg |-> leg, existing |-> <<>>, created |-> NoOrder,
     mode |-> "", raised |-> FALSE, posts |-> 0]

\* what a crashed or completed earlier run may have left for the key: nothing,
\* the order at the broker only, or the order and its ledger row
RaceOrder(d, m, leg) ==
    LET a == LegArgs(m, d, leg)
    IN NewOrder(<<>>, a[5], a[6], a[7], KeyOf(d, leg))

InitRace ==
    /\ InitPureIdle
    /\ TRADING_ENABLED \in BOOLEAN
    /\ market \in {m \in SeqMarkets : ~data_is_stale(m, <<"AAPL", "MSFT">>,
                                                      DATA_STALE_SECONDS)}
    /\ \E leg \in Legs :
         /\ runs = [i \in {1, 2} |-> RaceRun(leg)]
         /\ \/ ledger = {} /\ broker = <<>>
            \/ ledger = {} /\ broker = <<RaceOrder(RaceDecision, market, leg)>>
            \/ /\ broker = <<RaceOrder(RaceDecision, market, leg)>>
               /\ ledger = {RowOf(RaceOrder(RaceDecision, market, leg))}
    /\ last = NoCall
    /\ prev = Summary(NoCall)
    /\ ncalls = 0
    /\ InitKeyIdle
    /\ InitIdle

\* existing = db_find_by_client_id(client_order_id), and the branch taken on it
RaceLookup(i) ==
    /\ runs[i].pc = "lookup"
    /\ \E existing \in {db_find_by_client_id(ledger, RaceKey)} :
         runs' = [runs EXCEPT
                    ![i].existing = existing,
                    ![i].pc = IF existing # <<>> THEN "fetch"
                              ELSE IF kill_switch_blocks(TRADING_ENABLED) THEN "done"
                              ELSE "submit",
                    ![i].mode = IF existing = <<>> /\ kill_switch_blocks(TRADING_ENABLED)
                                THEN "trading_disabled" ELSE ""]
    /\ UNCHANGED <<ledger, broker, TRADING_ENABLED, market, last, prev, ncalls, kin, kout, rin, rout, job, sz, http, dlq, throttle, sync, runner>>

\* latest = fetch_order_by_alpaca_id(alpaca_order_id)
RaceFetch(i) ==
    /\ runs[i].pc = "fetch"
    /\ runs' = [runs EXCEPT
                  ![i].created = fetch_order_by_alpaca_id(broker, runs[i].existing[1]),
                  ![i].mode = "fetch_existing",
                  ![i].pc = "write"]
    /\ UNCHANGED <<ledger, broker, TRADING_ENABLED, market, last, prev, ncalls, kin, kout, rin, rout, job, sz, http, dlq, throttle, sync, runner>>

\* the answers of a broker that is up: it accepts, or rejects the duplicate
RaceAnswers(b, symbol, side, client_order_id) ==
    {a \in PostAnswers(b, symbol, side, client_order_id) :
        a.post \in {"200", "422_unique"} /\ a.get \in {"", "ok"}}

\* created = submit_order(...)
RaceSubmit(i) ==
    /\ runs[i].pc = "submit"
    /\ \E ans \in RaceAnswers(broker, RaceArgs[5], RaceArgs[7], RaceKey) :
         \E s \in {submit_order(ledger, broker, RaceArgs[5], RaceArgs[6],
                                RaceArgs[7], RaceKey, ans)} :
            /\ broker' = s.broker
            /\ ledger' = s.ledger
            /\ runs' = [runs EXCEPT
                          ![i].created = s.created,
                          ![i].raised = s.raised,
                          ![i].posts = s.posts,
                          ![i].mode = IF s.raised THEN ""
                                      ELSE leg_record_created(RaceKey, s).r.mode,
                          ![i].pc = IF s.raised THEN "done" ELSE "write"]
    /\ UNCHANGED <<TRADING_ENABLED, market, last, prev, ncalls, kin, kout, rin, rout, job, sz, http, dlq, throttle, sync, runner>>

\* db_upsert_order(latest) / db_upsert_order(created)
RaceWrite(i) ==
    /\ runs[i].pc = "write"
    /\ ledger' = db_upsert_order(ledger, runs[i].created)
    /\ runs' = [runs EXCEPT ![i].pc = "done"]
    /\ UNCHANGED <<broker, TRADING_ENABLED, market, last, prev, ncalls, kin, kout, rin, rout, job, sz, http, dlq, throttle, sync, runner>>

\* the market fills part or all of an open order while the runs are under way
RaceFill(i, f) ==
    /\ \E r \in {1, 2} : runs[r].pc # "done"
    /\ i \in DOMAIN broker
    /\ broker[i].status \in OpenStatuses
    /\ f \in (broker[i].filled_qty + 1)..broker[i].qty
    /\ broker' = FillTo(broker, broker[i].id, f)
    /\ UNCHANGED <<ledger, TRADING_ENABLED, market, last, prev, ncalls, runs, kin, kout, rin, rout, job, sz, http, dlq, throttle, sync, runner>>

NextRace ==
    \/ \E i \in {1, 2} : RaceLookup(i)
    \/ \E i \in {1, 2} : RaceFetch(i)
    \/ \E i \in {1, 2} : RaceSubmit(i)
    \/ \E i \in {1, 2} : RaceWrite(i)
    \/ \E i \in 1..MaxBrokerOrders, f \in 1..MaxQty : RaceFill(i, f)

SpecRace == InitRace /\ [][NextRace]_vars

RaceOver == runs[1].pc = "done" /\ runs[2].pc = "done"

\* C3: in every interleaving of the steps of two runs that execute the same
\* leg with the kill switch on, the broker never holds more than one order
\* for the key, and when both runs are over neither has failed and the
\* ledger holds exactly one row for the key.
C3_RaceOneOrderOneRow ==
    /\ Cardinality(OrdersOfKey(broker, RaceKey)) <= 1
    /\ (RaceOver /\ TRADING_ENABLED) =>
         /\ ~runs[1].raised /\ ~runs[2].raised
         /\ Cardinality(OrdersOfKey(broker, RaceKey)) = 1
         /\ Cardinality(RowsOf(ledger, RaceKey)) = 1
         /\ \A r \in RowsOf(ledger, RaceKey) :
              r.alpaca_order_id = broker[CHOOSE i \in OrdersOfKey(broker, RaceKey) : TRUE].id

\* C3 happens: both runs found no row and both sent the POST; the broker
\* accepted one and rejected the other as a duplicate.
C3_Witness ==
    /\ RaceOver
    /\ runs[1].posts = 1 /\ runs[2].posts = 1
    /\ ~runs[1].raised /\ ~runs[2].raised

(***************************************************************************)
(* build_client_order_id as a pure function: two input tuples are drawn,   *)
(* and the keys of both are built.                                         *)
(***************************************************************************)
InitKey ==
    /\ InitPureIdle
    /\ kin \in KeyInputs \X KeyInputs
    /\ kout = <<>>
    /\ InitIdle
    /\ InitSeq
    /\ TRADING_ENABLED = TRUE
    /\ market \in {m \in SeqMarkets : ~data_is_stale(m, <<"AAPL", "MSFT">>,
                                                      DATA_STALE_SECONDS)}
    /\ runs = IdleRuns

BuildKeys ==
    /\ kin # <<>>
    /\ kout = <<>>
    /\ kout' = <<build_client_order_id(kin[1][1], kin[1][2], kin[1][3],
                                       kin[1][4], kin[1][5]),
                 build_client_order_id(kin[2][1], kin[2][2], kin[2][3],
                                       kin[2][4], kin[2][5])>>
    /\ UNCHANGED <<ledger, broker, TRADING_ENABLED, market, last, prev, ncalls, runs, kin, rin, rout, job, sz, http, dlq, throttle, sync, runner>>

NextKey == BuildKeys

SpecKey == InitKey /\ [][NextKey]_vars

\* C10 as stated: two input tuples that differ in pair id, timestamp, action,
\* leg or symbol give different keys.
C10_KeysDiffer ==
    (kout # <<>> /\ kin[1] # kin[2]) => kout[1] # kout[2]

\* the length the broker allows for a client order id
MaxClientOrderIdLen == 48

\* C11: every key build_client_order_id returns, and every client id built
\* for a flatten order, is at most 48 characters long.
C11_KeyLength ==
    /\ kout # <<>> =>
         Len(kout[1]) <= MaxClientOrderIdLen /\ Len(kout[2]) <= MaxClientOrderIdLen
    /\ \A t \in DOMAIN FlattenClientIds : Len(FlattenClientIds[t]) <= MaxClientOrderIdLen

\* C11 happens: a key was built whose core and hash together are longer than
\* 48 characters, and it came back cut to 48.
C11_Witness ==
    /\ kout # <<>>
    /\ Len(LegCore(kin[1][1], kin[1][2], kin[1][3], kin[1][4], kin[1][5])) + 19
         > MaxClientOrderIdLen
    /\ Len(kout[1]) = MaxClientOrderIdLen

(***************************************************************************)
(* Properties of the order of events in one call (last.trace).             *)
(***************************************************************************)
Positions(t, e) == {i \in DOMAIN t : t[i] = e}

Leg2Raised == PairCalled /\ last.pair.leg2.called /\ last.pair.leg2.raised

\* C12 as stated: when leg B's execute_leg raises inside execute_pair_signal
\* the call ends by raising, after the one cancel request and the one flatten
\* attempt where leg A was submitted, and a failure of the cancel or of the
\* flatten is followed by a log record of that failure.
C12_CompensationFailureLogged ==
    Leg2Raised =>
      /\ last.raised
      /\ last.trace[Len(last.trace)] = "raise"
      /\ Cardinality(Positions(last.trace, "DELETE")) <= 1
      /\ last.pair.repair.raised => "log:exec_repair_failed" \in Range(last.trace)
      /\ last.pair.cancel = "error" =>
           \A i \in Positions(last.trace, "DELETE") : IsLog(last.trace[i + 1])

\* C14 as stated: a leg's order submission that meets a transient broker
\* failure is sent again before execute_leg raises.
C14_TransientFailureRetried ==
    (LegCalled /\ last.ans.post = "error") =>
       Cardinality(Positions(last.trace, "POST")) > 1

\* C15 as stated: every order submission of an execute_pair_signal call has
\* a risk_check after the submission before it.
C15_AsStated ==
    PairCalled =>
      \A i \in Positions(last.trace, "POST") :
        \E j \in Positions(last.trace, "risk_check") :
           j < i /\ \A k \in (j + 1)..(i - 1) : last.trace[k] # "POST"

\* C15 amended: the risk gate is evaluated once per execute_pair_signal call,
\* before leg A: a call that submits an order evaluated risk_check exactly
\* once, before its first request, and that evaluation allowed the pair.
C15_GateOncePerPair ==
    (PairCalled /\ last.posts > 0) =>
      /\ Cardinality(Positions(last.trace, "risk_check")) = 1
      /\ last.trace[1] = "risk_check"
      /\ risk_check(market, <<last.args[1].symbol_1, last.args[1].symbol_2>>,
                    MAX_GROSS_EXPOSURE, MAX_POSITION_VALUE_PER_SYMBOL,
                    MAX_ORDERS_PER_RUN, DATA_STALE_SECONDS, last.args[2]) = <<>>

\* C15 happens: one call submitted leg A, leg B and a flatten order
C15_Witness ==
    PairCalled /\ Cardinality(Positions(last.trace, "POST")) = 3

(***************************************************************************)
(* The run of the module's main block: the latest signal of every enabled  *)
(* pair is read, the ENTER signals are kept, the open orders are fetched   *)
(* once, and execute_pair_signal is called for one row after the other.    *)
(* Nothing in the block catches what execute_pair_signal raises.           *)
(***************************************************************************)
\* what the query can return: no row, or one row per pair, by pair id
RunQueries ==
    {<<>>}
    \cup {<<Decision(1, TimestampSeq[1], a, "AAPL", "MSFT", 10)>> :
            a \in {"ENTER_LONG", "EXIT"}}
    \cup {<<Decision(1, TimestampSeq[1], a, "AAPL", "MSFT", 10),
            Decision(1000, TimestampSeq[2], "ENTER_SHORT", "MSFT", "AAPL", 10)>> :
            a \in {"ENTER_LONG", "EXIT"}}
    \cup {<<Decision(1, TimestampSeq[1], "ENTER_LONG", "AAPL", "MSFT", 10),
            Decision(2, TimestampSeq[1], "ENTER_LONG", "AAPL", "MSFT", 10),
            Decision(1000, TimestampSeq[2], "ENTER_SHORT", "MSFT", "AAPL", 10)>>}

\* rows = [r for r in rows if r[2] in ("ENTER_LONG", "ENTER_SHORT")]
RECURSIVE tradable_rows(_)
tradable_rows(rows) ==
    IF rows = <<>> THEN <<>>
    ELSE (IF rows[1].action \in {"ENTER_LONG", "ENTER_SHORT"}
          THEN <<rows[1]>> ELSE <<>>) \o tradable_rows(Tail(rows))

Job(pc, rows, i, orders_submitted, open_symbols, attempted, fetch_failed) ==
    [pc |-> pc, rows |-> rows, i |-> i, orders_submitted |-> orders_submitted,
     open_symbols |-> open_symbols, attempted |-> attempted,
     fetch_failed |-> fetch_failed]

InitRun ==
    /\ InitPureIdle
    /\ InitSeq
    /\ InitKeyIdle
    /\ rin = <<>>
    /\ rout = <<>>
    /\ TRADING_ENABLED \in BOOLEAN
    /\ market \in SeqMarkets
    /\ runs = IdleRuns
    /\ \E q \in RunQueries : job = Job("start", q, 1, 0, {}, {}, FALSE)

\* another source has an order open when the run starts
RunForeignOrder(symbol, side) ==
    /\ job.pc = "start"
    /\ Cardinality({i \in DOMAIN broker : IsForeign(broker[i])}) < MaxForeign
    /\ broker' = Append(broker, NewOrder(broker, symbol, 1, side,
                                         "manual-" \o ToString(Len(broker) + 1)))
    /\ UNCHANGED <<ledger, TRADING_ENABLED, market, last, prev, ncalls, runs, kin, kout, rin, rout, job, sz, http, dlq, throttle, sync, runner>>

\* the block up to the loop: SystemExit without rows; a failed fetch of the
\* open orders is logged and leaves open_symbols empty
RunStart(fetched) ==
    /\ job.pc = "start"
    /\ LET rows == tradable_rows(job.rows)
       IN job' = IF rows = <<>>
                 THEN Job("done", rows, 1, 0, {}, {}, FALSE)
                 ELSE Job("loop", rows, 1, 0,
                          IF fetched THEN OpenSymbols(broker) ELSE {}, {},
                          ~fetched)
    /\ UNCHANGED <<ledger, broker, TRADING_ENABLED, market, last, prev, ncalls, runs, kin, kout, rin, rout, sz, http, dlq, throttle, sync, runner>>

\* a loop that fetches the open orders again before every pair
run_open_symbols_refetched(j, b) == OpenSymbols(b)

\* open_symbols_with_orders=open_symbols: the set fetched before the loop
run_open_symbols(j, b) == j.open_symbols

\* one pass of the for loop; an exception of execute_pair_signal leaves the
\* loop and the block (finally: conn.close()) and ends the process
RunPair ==
    /\ job.pc = "loop"
    /\ LET d == job.rows[job.i]
       IN \E open \in {run_open_symbols(job, broker)} :
          \E sc \in PairScripts(ledger, broker, TRADING_ENABLED, market, d,
                                job.orders_submitted, open) :
            \E o \in {execute_pair_signal(ledger, broker, TRADING_ENABLED, market, d,
                                          job.orders_submitted, open, sc)} :
               /\ ledger' = o.ledger
               /\ broker' = o.broker
               /\ job' = IF o.raised
                         THEN [job EXCEPT !.pc = "crashed",
                                          !.attempted = @ \cup {job.i}]
                         ELSE [job EXCEPT
                                 !.pc = IF job.i = Len(job.rows) THEN "done"
                                        ELSE "loop",
                                 !.i = job.i + 1,
                                 !.attempted = @ \cup {job.i},
                                 !.orders_submitted =
                                     IF o.mode = "pair_executed"
                                     THEN o.orders_submitted_in_run ELSE @]
               /\ last' = PairCallRecord(d, job.orders_submitted, open, o, sc)
    /\ prev' = Summary(last)
    /\ UNCHANGED <<TRADING_ENABLED, market, ncalls, runs, kin, kout, rin, rout, sz, http, dlq, throttle, sync, runner>>

\* the market fills an open order while the run goes on
RunFill(i, f) ==
    /\ job.pc = "loop"
    /\ i \in DOMAIN broker
    /\ broker[i].status \in OpenStatuses
    /\ f \in (broker[i].filled_qty + 1)..broker[i].qty
    /\ broker' = FillTo(broker, broker[i].id, f)
    /\ UNCHANGED <<ledger, TRADING_ENABLED, market, last, prev, ncalls, runs, kin, kout, rin, rout, job, sz, http, dlq, throttle, sync, runner>>

NextRun ==
    \/ \E symbol \in TradedSymbols, side \in Sides : RunForeignOrder(symbol, side)
    \/ \E fetched \in BOOLEAN : RunStart(fetched)
    \/ RunPair
    \/ \E i \in 1..MaxBrokerOrders, f \in 1..MaxQty : RunFill(i, f)

SpecRun == InitRun /\ [][NextRun]_vars

RunOver == job.pc \in {"done", "crashed"}

\* C13 as stated: when the run is over, every tradable row of the run was
\* passed to execute_pair_signal, also the rows after one whose call raised.
C13_LaterPairsAttempted ==
    RunOver => job.attempted = DOMAIN job.rows

(***************************************************************************)
(* risk_check as a pure function of the prices and positions tables and of *)
(* its arguments: the inputs are drawn, and the gate is evaluated once.    *)
(* Values are whole dollars, so a limit of 0 stands for the 0.01 of the    *)
(* test: every positive value exceeds it.                                  *)
(***************************************************************************)
\* latest prices: none, or a close with an age around the stale threshold
RiskPrices(close) ==
    {NoPrice, Price(10, close), Price(DATA_STALE_SECONDS, close),
     Price(DATA_STALE_SECONDS + 1, close)}

\* rows of the positions table: none, within the limits, at a limit, over it
RiskPositions ==
    {<<>>,
     <<[symbol |-> "AAPL", qty |-> 2]>>,
     <<[symbol |-> "MSFT", qty |-> 0 - 7]>>,
     <<[symbol |-> "AAPL", qty |-> 2], [symbol |-> "MSFT", qty |-> 0 - 4]>>,
     <<[symbol |-> "AAPL", qty |-> 4], [symbol |-> "MSFT", qty |-> 3]>>,
     <<[symbol |-> "AAPL", qty |-> 6], [symbol |-> "MSFT", qty |-> 0 - 3]>>}

RiskMarkets ==
    {[prices |-> [s \in TradedSymbols |-> IF s = "AAPL" THEN pa ELSE pm],
      positions |-> ps] :
        pa \in RiskPrices(500), pm \in RiskPrices(1000), ps \in RiskPositions}

RiskOrders == {<<"AAPL">>, <<"MSFT">>, <<"AAPL", "MSFT">>}

RiskInput(m, symbols_for_order, max_gross_exposure, max_position_value_per_symbol, max_orders_per_run, stale_seconds, orders_submitted_in_run) ==
    [m |-> m, symbols_for_order |-> symbols_for_order,
     max_gross_exposure |-> max_gross_exposure,
     max_position_value_per_symbol |-> max_position_value_per_symbol,
     max_orders_per_run |-> max_orders_per_run, stale_seconds |-> stale_seconds,
     orders_submitted_in_run |-> orders_submitted_in_run]

RiskInputs ==
    {RiskInput(m, symbols, g, v, o, st, n) :
        m \in RiskMarkets, symbols \in RiskOrders,
        g \in {0, MAX_GROSS_EXPOSURE}, v \in {0, MAX_POSITION_VALUE_PER_SYMBOL},
        o \in {0, MAX_ORDERS_PER_RUN}, st \in {0, DATA_STALE_SECONDS},
        n \in {0, MAX_ORDERS_PER_RUN - 1, MAX_ORDERS_PER_RUN}}

NotEvaluated == [done |-> FALSE, allowed |-> FALSE, reasons |-> <<>>]

InitRisk ==
    /\ InitPureIdle
    /\ InitSeq
    /\ InitKeyIdle
    /\ TRADING_ENABLED = TRUE
    /\ market \in {m \in SeqMarkets : ~data_is_stale(m, <<"AAPL", "MSFT">>,
                                                      DATA_STALE_SECONDS)}
    /\ runs = IdleRuns
    /\ job = [pc |-> "idle"]
    /\ rin \in RiskInputs
    /\ rout = NotEvaluated

\* allowed, reasons = risk_check(...): allowed = len(reasons) == 0
EvaluateRisk ==
    /\ rin # <<>>
    /\ ~rout.done
    /\ \E reasons \in {risk_check(rin.m, rin.symbols_for_order, rin.max_gross_exposure,
                                  rin.max_position_value_per_symbol,
                                  rin.max_orders_per_run, rin.stale_seconds,
                                  rin.orders_submitted_in_run)} :
         rout' = [done |-> TRUE, allowed |-> Len(reasons) = 0, reasons |-> reasons]
    /\ UNCHANGED <<ledger, broker, TRADING_ENABLED, market, last, prev, ncalls, runs, kin, kout, rin, job, sz, http, dlq, throttle, sync, runner>>

NextRisk == EvaluateRisk

SpecRisk == InitRisk /\ [][NextRisk]_vars

(***************************************************************************)
(* Properties of risk_check, read off its inputs (rin) and result (rout).  *)
(* The rules are restated here from the prices and positions directly.     *)
(***************************************************************************)
OrderSymbols == {rin.symbols_for_order[i] : i \in DOMAIN rin.symbols_for_order}

HasPrice(symbol) == rin.m.prices[symbol].has

\* some symbol of the order has no price, or a latest price older than
\* stale_seconds
StaleViolated ==
    \/ \E s \in OrderSymbols : ~HasPrice(s)
    \/ \E s \in OrderSymbols : rin.m.prices[s].age > rin.stale_seconds

\* |quantity| x latest price of a held position whose symbol has a price
HeldValue(p) == Abs(p.qty) * rin.m.prices[p.symbol].close

RECURSIVE SumHeld(_)
SumHeld(ps) ==
    IF ps = <<>> THEN 0
    ELSE (IF HasPrice(Head(ps).symbol) THEN HeldValue(Head(ps)) ELSE 0)
         + SumHeld(Tail(ps))

GrossViolated == SumHeld(rin.m.positions) > rin.max_gross_exposure

\* the symbol of the order has no price, or the held value of it is over the
\* limit
SymbolViolated(s) ==
    \/ ~HasPrice(s)
    \/ \E i \in DOMAIN rin.m.positions :
         /\ rin.m.positions[i].symbol = s
         /\ HeldValue(rin.m.positions[i]) > rin.max_position_value_per_symbol

BudgetViolated == rin.orders_submitted_in_run >= rin.max_orders_per_run

Count(t, E) == Cardinality({i \in DOMAIN t : t[i] \in E})

B2N(b) == IF b THEN 1 ELSE 0

\* C16: the reasons risk_check returns hold one entry per violated limit:
\* one for stale data, one for gross exposure, one for every symbol of the
\* order without a price or over the per-symbol limit, one for the order
\* budget, whichever of them are violated together.
C16_OneReasonPerViolatedLimit ==
    rout.done =>
      /\ Count(rout.reasons, {"data_stale"}) = B2N(StaleViolated)
      /\ Count(rout.reasons, {"max_gross_exposure"}) = B2N(GrossViolated)
      /\ Count(rout.reasons, {"missing_price", "max_symbol_position"})
           = Cardinality({i \in DOMAIN rin.symbols_for_order :
                            SymbolViolated(rin.symbols_for_order[i])})
      /\ Count(rout.reasons, {"max_orders_per_run"}) = B2N(BudgetViolated)
      /\ Len(rout.reasons)
           = B2N(StaleViolated) + B2N(GrossViolated) + B2N(BudgetViolated)
             + Cardinality({i \in DOMAIN rin.symbols_for_order :
                              SymbolViolated(rin.symbols_for_order[i])})

\* C16 happens: all four rules are violated at once, both symbols of the
\* order are over their limit, and five reasons came back
C16_Witness ==
    /\ rout.done
    /\ StaleViolated /\ GrossViolated /\ BudgetViolated
    /\ \A s \in OrderSymbols : SymbolViolated(s)
    /\ Len(rin.symbols_for_order) = 2
    /\ Len(rout.reasons) = 5

\* C17: risk_check returns allowed exactly when no rule is violated, and then
\* without reasons; with a violated limit, as whenever orders_submitted_in_run
\* >= max_orders_per_run, it returns not allowed and at least one reason.
C17_AllowedIffNoViolation ==
    rout.done =>
      /\ rout.allowed <=> ~(\/ StaleViolated \/ GrossViolated \/ BudgetViolated
                            \/ \E s \in OrderSymbols : SymbolViolated(s))
      /\ rout.allowed => rout.reasons = <<>>
      /\ ~rout.allowed => rout.reasons # <<>>
      /\ BudgetViolated => ~rout.allowed /\ rout.reasons # <<>>

\* C17 happens: the call of the test (one symbol, every limit at its lowest,
\* max_orders_per_run = 0, nothing submitted) was refused
C17_Witness ==
    /\ rout.done
    /\ rin.symbols_for_order = <<"AAPL">>
    /\ rin.max_gross_exposure = 0 /\ rin.max_position_value_per_symbol = 0
    /\ rin.max_orders_per_run = 0 /\ rin.stale_seconds = 0
    /\ rin.orders_submitted_in_run = 0
    /\ ~rout.allowed

\* C18: risk_check gives a data_stale reason exactly when a symbol of the
\* order has no price or the largest age of the order's latest prices is
\* greater than stale_seconds; an age equal to stale_seconds is not stale.
C18_StaleRule ==
    rout.done =>
      ("data_stale" \in Range(rout.reasons) <=> StaleViolated)

\* C18 happens: the oldest price of the order is exactly stale_seconds old
\* and no data_stale reason was given
C18_Witness ==
    /\ rout.done
    /\ \A s \in OrderSymbols : HasPrice(s) /\ rin.m.prices[s].age <= rin.stale_seconds
    /\ \E s \in OrderSymbols : rin.m.prices[s].age = rin.stale_seconds
    /\ "data_stale" \notin Range(rout.reasons)

\* C19 as stated: risk_check gives a max_gross_exposure reason exactly when
\* the sum of |quantity| x latest price over all held positions is greater
\* than max_gross_exposure, and a held position whose symbol has no price
\* does not pass unnoticed: the order is then refused.
C19_GrossExposureRule ==
    rout.done =>
      /\ "max_gross_exposure" \in Range(rout.reasons) <=> GrossViolated
      /\ (\E i \in DOMAIN rin.m.positions :
            /\ rin.m.positions[i].qty # 0
            /\ ~HasPrice(rin.m.positions[i].symbol)) => ~rout.allowed

(***************************************************************************)
(* execute_pair_signal called with any action, any count of orders already *)
(* submitted and any open-order snapshot, under every market situation and *)
(* kill-switch setting.                                                    *)
(***************************************************************************)
GateActions == {"ENTER_LONG", "EXIT", "HOLD", "REBALANCE"}

GateDecisions ==
    {Decision(1, "2024-01-10T00:00:00", a, "AAPL", "MSFT", 10) : a \in GateActions}

GateCounts ==
    {0, MAX_ORDERS_PER_RUN - 2, MAX_ORDERS_PER_RUN - 1, MAX_ORDERS_PER_RUN}

InitGate ==
    /\ InitPureIdle
    /\ InitSeq
    /\ InitKeyIdle
    /\ InitIdle
    /\ TRADING_ENABLED \in BOOLEAN
    /\ market \in Markets
    /\ runs = IdleRuns

NextGate ==
    \/ \E d \in GateDecisions, n \in GateCounts, open \in SUBSET TradedSymbols :
         ExecutePairSignalCall(d, n, open)
    \/ SetKillSwitch

SpecGate == InitGate /\ [][NextGate]_vars

NoActionCalled ==
    PairCalled /\ last.args[1].action \notin {"ENTER_LONG", "ENTER_SHORT"}

NothingDone ==
    /\ ~last.raised
    /\ last.trace = <<>>
    /\ last.posts = 0 /\ last.gets = 0 /\ last.cancels = 0 /\ last.upserts = 0
    /\ last.la = last.lb /\ last.ba = last.bb

\* C20 as stated: for an action other than ENTER_LONG and ENTER_SHORT
\* execute_pair_signal returns mode no_action with no broker request and no
\* ledger write, whatever the order budget, snapshot, risk state and kill
\* switch.
C20_AsStated ==
    NoActionCalled => (last.mode = "no_action" /\ NothingDone)

\* C20 amended: for such an action execute_pair_signal makes no broker request
\* and no ledger write and does not raise; it returns mode no_action when
\* orders_submitted_in_run + 2 <= MAX_ORDERS_PER_RUN, and otherwise
\* blocked_pair with reason max_orders_pair, whatever the snapshot, the risk
\* state and the kill switch.
C20_NoActionNoEffect ==
    NoActionCalled =>
      /\ NothingDone
      /\ IF last.args[2] + 2 <= MAX_ORDERS_PER_RUN
         THEN last.mode = "no_action"
         ELSE last.mode = "blocked_pair" /\ last.pair.reason = "max_orders_pair"

\* C20 happens: an EXIT signal arrived with the budget used up, orders in the
\* ledger, an open-order snapshot naming its symbols and the kill switch off
C20_Witness ==
    /\ NoActionCalled
    /\ last.args[1].action = "EXIT"
    /\ last.args[2] + 2 > MAX_ORDERS_PER_RUN
    /\ last.args[3] = TradedSymbols
    /\ last.lb # {}
    /\ ~last.te
    /\ last.mode = "blocked_pair"

(***************************************************************************)
(* Properties of the gate of execute_pair_signal (sequential model).       *)
(***************************************************************************)
\* the open orders at the broker, when the call began, on a symbol of d
OpenOnPair(b, d) ==
    {i \in DOMAIN b : /\ b[i].status \in OpenStatuses
                      /\ b[i].symbol \in {d.symbol_1, d.symbol_2}}

\* the order was placed under the key of one of d's own legs
IsOwnLeg(o, d) == o.client_order_id \in {KeyOf(d, "L1"), KeyOf(d, "L2")}

BudgetHasRoom == last.args[2] + 2 <= MAX_ORDERS_PER_RUN

\* C21 as stated: with room in the budget and the run's snapshot taken from
\* the broker, execute_pair_signal returns blocked_pair / open_orders_exist
\* without a submission when a symbol of the pair has an open order of
\* another source, and an open order of the decision's own leg does not
\* block the re-run.
C21_OpenOrderGate ==
    (PairCalled /\ BudgetHasRoom /\ last.args[3] = OpenSymbols(last.bb)) =>
      LET d == last.args[1]
          open == OpenOnPair(last.bb, d)
      IN /\ (\E i \in open : ~IsOwnLeg(last.bb[i], d)) =>
               /\ last.mode = "blocked_pair"
               /\ last.pair.reason = "open_orders_exist"
               /\ last.posts = 0
         /\ (open # {} /\ \A i \in open : IsOwnLeg(last.bb[i], d)) =>
               last.pair.reason # "open_orders_exist"

\* C22: execute_pair_signal submits no order when orders_submitted_in_run + 2
\* > MAX_ORDERS_PER_RUN, also with exactly one order left in the budget: it
\* returns blocked_pair with reason max_orders_pair and does nothing else.
C22_PairBudget ==
    (PairCalled /\ ~BudgetHasRoom) =>
      /\ last.mode = "blocked_pair"
      /\ last.pair.reason = "max_orders_pair"
      /\ last.posts = 0 /\ last.gets = 0 /\ last.cancels = 0 /\ last.upserts = 0
      /\ last.la = last.lb /\ last.ba = last.bb
      /\ ~last.raised

\* C22 happens: an ENTER signal with one order left in the budget, the kill
\* switch on, no open order in the snapshot and nothing the risk gate refuses
C22_Witness ==
    /\ PairCalled
    /\ last.args[1].action = "ENTER_LONG"
    /\ last.args[2] = MAX_ORDERS_PER_RUN - 1
    /\ last.args[3] = {}
    /\ last.te
    /\ risk_check(market, <<"AAPL", "MSFT">>, MAX_GROSS_EXPOSURE,
                  MAX_POSITION_VALUE_PER_SYMBOL, MAX_ORDERS_PER_RUN,
                  DATA_STALE_SECONDS, last.args[2]) = <<>>
    /\ last.mode = "blocked_pair"

GateFailed == PairCalled /\ last.mode = "blocked_pair"

\* C23 as stated: a gate failure of execute_pair_signal (open orders, order
\* budget, risk block, kill switch off) returns right after a log record of
\* that failure, and the gates after the failing one are not evaluated: no
\* risk_check after an open-order or budget failure, and no request at all.
C23_GateFailureLogged ==
    GateFailed =>
      /\ last.trace # <<>>
      /\ IsLog(last.trace[Len(last.trace)])
      /\ last.pair.reason \in {"max_orders_pair", "open_orders_exist"} =>
           "risk_check" \notin Range(last.trace)
      /\ last.posts = 0 /\ last.gets = 0 /\ last.cancels = 0

(***************************************************************************)
(* Properties of the legs of execute_pair_signal, read off the calls of    *)
(* the run of the main block.                                              *)
(***************************************************************************)
\* the orders the broker received during the last call under the key of leg
NewLegOrders(leg) ==
    {i \in DOMAIN last.ba \ DOMAIN last.bb :
        last.ba[i].client_order_id = KeyOf(last.args[1], leg)}

\* C24: ENTER_LONG buys symbol_1 and sells symbol_2, ENTER_SHORT sells
\* symbol_1 and buys symbol_2; leg A (L1) is submitted before leg B (L2), and
\* leg B is not submitted when leg A's execute_leg raised.
C24_LegSidesAndOrder ==
    PairCalled =>
      LET d == last.args[1]
          long == d.action = "ENTER_LONG"
      IN /\ \A i \in NewLegOrders("L1") :
               /\ last.ba[i].symbol = d.symbol_1
               /\ last.ba[i].side = IF long THEN "buy" ELSE "sell"
         /\ \A i \in NewLegOrders("L2") :
               /\ last.ba[i].symbol = d.symbol_2
               /\ last.ba[i].side = IF long THEN "sell" ELSE "buy"
         /\ \A i \in NewLegOrders("L1"), j \in NewLegOrders("L2") : i < j
         /\ last.pair.leg2.called =>
               last.pair.leg1.called /\ ~last.pair.leg1.raised
         /\ last.pair.leg1.raised =>
               ~last.pair.leg2.called /\ NewLegOrders("L2") = {}

\* C24 happens: an ENTER_SHORT call placed both legs
C24_Witness ==
    /\ PairCalled
    /\ last.args[1].action = "ENTER_SHORT"
    /\ NewLegOrders("L1") # {} /\ NewLegOrders("L2") # {}

(***************************************************************************)
(* The sizing of the two legs as a pure function of the latest prices and  *)
(* the hedge ratio (whole dollars, ratio in tenths).                       *)
(***************************************************************************)
SizePrices == {1, 3, 7, 333, 500, 999, 1000, 1001, 2500}

SizeHedgeRatios == {0 - 25, 0 - 10, 0 - 1, 0, 1, 5, 10, 15, 33}

Sizing(price1, price2, hedge_ratio, done, qty1, qty2) ==
    [price1 |-> price1, price2 |-> price2, hedge_ratio |-> hedge_ratio,
     done |-> done, qty1 |-> qty1, qty2 |-> qty2]

\* the prices table and the decision execute_pair_signal sizes
SizeMarket ==
    [prices |-> [s \in TradedSymbols |->
                   IF s = "AAPL" THEN Price(10, sz.price1) ELSE Price(10, sz.price2)],
     positions |-> <<>>]

SizeDecision ==
    Decision(1, "2024-01-10T00:00:00", "ENTER_LONG", "AAPL", "MSFT", sz.hedge_ratio)

InitSize ==
    /\ InitSeq
    /\ InitKeyIdle
    /\ InitIdle
    /\ http = [pc |-> "idle"]
    /\ dlq = <<>>
    /\ InitOthersIdle
    /\ TRADING_ENABLED = TRUE
    /\ market \in {m \in SeqMarkets : ~data_is_stale(m, <<"AAPL", "MSFT">>,
                                                      DATA_STALE_SECONDS)}
    /\ runs = IdleRuns
    /\ \E p1 \in SizePrices, p2 \in SizePrices, h \in SizeHedgeRatios :
         sz = Sizing(p1, p2, h, FALSE, 0, 0)

\* lines 569-579: qty1, qty2
SizeLegs ==
    /\ sz # <<>>
    /\ ~sz.done
    /\ sz' = [sz EXCEPT !.done = TRUE,
                        !.qty1 = qty_leg1(SizeMarket, SizeDecision),
                        !.qty2 = qty_leg2(SizeMarket, SizeDecision)]
    /\ UNCHANGED <<ledger, broker, TRADING_ENABLED, market, last, prev, ncalls, runs, kin, kout, rin, rout, job, http, dlq, throttle, sync, runner>>

NextSize == SizeLegs

SpecSize == InitSize /\ [][NextSize]_vars

\* q = max(1, floor(num / den)), stated without division
IsFloorAtLeastOne(q, num, den) ==
    IF num < den THEN q = 1
    ELSE q * den <= num /\ num < (q + 1) * den

\* C25: leg A's quantity is max(1, floor(1000 / price A)) and leg B's is
\* max(1, floor(|hedge ratio| x 1000 / price B)); both are at least 1 for
\* every positive price and every hedge ratio, zero and negative included.
C25_Sizing ==
    (sz # <<>> /\ sz.done) =>
      /\ IsFloorAtLeastOne(sz.qty1, 1000, sz.price1)
      /\ IsFloorAtLeastOne(sz.qty2, Abs(sz.hedge_ratio) * 1000, 10 * sz.price2)
      /\ sz.qty1 >= 1 /\ sz.qty2 >= 1

\* C25 happens: a negative hedge ratio gave leg B more than one share, and a
\* price above the notional gave leg A its minimum of one
C25_Witness ==
    /\ sz # <<>> /\ sz.done
    /\ sz.hedge_ratio < 0 /\ sz.qty2 > 1
    /\ sz.price1 > 1000 /\ sz.qty1 = 1

\* C26: the count execute_pair_signal returns is the count passed in plus the
\* number of its legs with mode submitted_new, and the count the run threads
\* through its pairs never exceeds MAX_ORDERS_PER_RUN.
C26_CountThreaded ==
    /\ job.orders_submitted <= MAX_ORDERS_PER_RUN
    /\ (PairCalled /\ last.mode = "pair_executed") =>
         /\ last.pair.orders_submitted_in_run
              = last.args[2] + B2N(last.pair.leg1.r.mode = "submitted_new")
                               + B2N(last.pair.leg2.r.mode = "submitted_new")
         /\ job.orders_submitted = last.pair.orders_submitted_in_run

\* C26 happens: two pairs used the budget up and the third pair of the run
\* was refused for it
C26_Witness ==
    /\ job.orders_submitted = MAX_ORDERS_PER_RUN
    /\ PairCalled
    /\ last.args[2] = MAX_ORDERS_PER_RUN
    /\ last.mode = "blocked_pair" /\ last.pair.reason = "max_orders_pair"

(***************************************************************************)
(* The resilience client (src/http_client.py): one call of request_json.   *)
(* Each step is one pass of its loop: the request, the classification of   *)
(* the response, and the except branch with the dead letter or the sleep.  *)
(* Times are milliseconds.                                                 *)
(***************************************************************************)
DefaultMaxRetries == 6
DefaultBaseBackoffMs == 500
BackoffCapMs == 30000
\* a base_backoff_s of 0.1, below the width of the jitter
SmallBaseBackoffMs == 100
MaxJitterMs == 250

\* status None
NoStatus == 0 - 1

\* a response: status 0 stands for a failure at network level (no response);
\* json tells whether the body parses; retry_after is the header, "" absent
Resp(status, json, retry_after) ==
    [status |-> status, json |-> json, retry_after |-> retry_after]

NoResp == Resp(NoStatus, FALSE, "")

RetryAfterValues == {"", "0", "2", "45", "-1", "Wed, 21 Oct 2015 07:28:00 GMT"}

HttpResponses ==
    {Resp(0, FALSE, ""), Resp(200, TRUE, ""), Resp(200, FALSE, "")}
    \cup {Resp(st, TRUE, ra) : st \in {404, 429, 503}, ra \in RetryAfterValues}

Jitters == {0, 100, MaxJitterMs}

\* float(s) for the header values drawn: an optional sign and digits give a
\* number of seconds, anything else raises ValueError
DigitValue(c) == CHOOSE n \in 0..9 : HexDigit(n) = c

RECURSIVE digits_value(_, _)
digits_value(s, acc) ==
    IF Len(s) = 0 THEN acc
    ELSE digits_value(SubSeq(s, 2, Len(s)), 10 * acc + DigitValue(SubSeq(s, 1, 1)))

float_of(s) ==
    LET neg == Len(s) > 0 /\ SubSeq(s, 1, 1) = "-"
        body == IF neg THEN SubSeq(s, 2, Len(s)) ELSE s
    IN IF Len(body) > 0 /\ digits_of(body) = body
       THEN [raised |-> FALSE,
             value |-> IF neg THEN 0 - digits_value(body, 0)
                       ELSE digits_value(body, 0)]
       ELSE [raised |-> TRUE, value |-> 0]

RECURSIVE Pow2(_)
Pow2(k) == IF k = 0 THEN 1 ELSE 2 * Pow2(k - 1)

Min(a, b) == IF a <= b THEN a ELSE b

\* resp.status_code in (429,) or 500 <= resp.status_code <= 599
is_retryable_status(status) == status = 429 \/ (500 <= status /\ status <= 599)

\* the exception the try block ends with, "" when it returns resp.json()
attempt_exception(resp) ==
    IF resp.status = 0 THEN "ConnectionError"
    ELSE IF is_retryable_status(resp.status) THEN "HTTPError"
    ELSE IF 400 <= resp.status /\ resp.status <= 599 THEN "HTTPError"
    ELSE IF ~resp.json THEN "JSONDecodeError"
    ELSE ""

\* a backoff without the cap of 30 seconds
backoff_ms_uncapped(base_backoff_ms, attempt, jitter) ==
    base_backoff_ms * Pow2(attempt) + jitter

\* min(30.0, base_backoff_s * (2 ** attempt) + jitter)
backoff_ms(base_backoff_ms, attempt, jitter) ==
    Min(BackoffCapMs, base_backoff_ms * Pow2(attempt) + jitter)

\* lines 140-144 and 158: the sleep before the next attempt.  float() of a
\* header that is no number raises, and so does time.sleep() of a negative
\* number; both leave the except branch with a ValueError.
retry_sleep(retry_after, base_backoff_ms, attempt, jitter) ==
    IF retry_after # ""
    THEN LET f == float_of(retry_after)
         IN IF f.raised \/ f.value < 0
            THEN [raised |-> TRUE, hint |-> TRUE, ms |-> 0]
            ELSE [raised |-> FALSE, hint |-> TRUE, ms |-> 1000 * f.value]
    ELSE [raised |-> FALSE, hint |-> FALSE,
          ms |-> backoff_ms(base_backoff_ms, attempt, jitter)]

\* the record _dead_letter appends (the fields the properties read)
DeadLetter(method, url, status, error) ==
    [event |-> "http_dead_letter", method |-> method, url |-> url,
     status |-> status, error |-> error]

NoSleep == [k |-> 0 - 1, jitter |-> 0, ms |-> 0, retry_after |-> ""]

HttpCall(max_retries, base_backoff_ms, dlq0) ==
    [pc |-> "loop", method |-> "GET",
     url |-> "https://paper-api.alpaca.markets/v2/account",
     max_retries |-> max_retries, base_backoff_ms |-> base_backoff_ms,
     attempt |-> 0, requests |-> 0, resp |-> NoResp, error |-> "",
     hint_sleep |-> NoSleep, backoff_sleep |-> NoSleep,
     prev_backoff_sleep |-> NoSleep, dlq0 |-> dlq0]

InitHttp ==
    /\ InitOthersIdle
    /\ InitSeq
    /\ InitKeyIdle
    /\ InitIdle
    /\ sz = <<>>
    /\ TRADING_ENABLED = TRUE
    /\ market \in {m \in SeqMarkets : ~data_is_stale(m, <<"AAPL", "MSFT">>,
                                                      DATA_STALE_SECONDS)}
    /\ runs = IdleRuns
    /\ dlq \in {<<>>, <<DeadLetter("POST", "https://paper-api.alpaca.markets/v2/orders",
                                   503, "HTTP 503")>>}
    /\ \E max_retries \in {0, 1, DefaultMaxRetries},
          base_backoff_ms \in {SmallBaseBackoffMs, DefaultBaseBackoffMs,
                                4 * DefaultBaseBackoffMs} :
         http = HttpCall(max_retries, base_backoff_ms, dlq)

\* one pass of the loop of request_json with the response resp
HttpAttempt(resp, jitter) ==
    /\ http.pc = "loop"
    /\ LET e == attempt_exception(resp)
           status == IF e = "HTTPError" THEN resp.status ELSE NoStatus
           retry_after == IF e = "HTTPError" THEN resp.retry_after ELSE ""
           h == [http EXCEPT !.requests = @ + 1, !.resp = resp, !.error = e]
       IN IF e = ""
          THEN /\ http' = [h EXCEPT !.pc = "returned"]
               /\ dlq' = dlq
          ELSE IF http.attempt = http.max_retries
          THEN /\ http' = [h EXCEPT !.pc = "raised"]
               /\ dlq' = Append(dlq, DeadLetter(http.method, http.url, status, e))
          ELSE \E s \in {retry_sleep(retry_after, http.base_backoff_ms,
                                     http.attempt, jitter)} :
                 /\ dlq' = dlq
                 /\ http' =
                      IF s.raised
                      THEN [h EXCEPT !.pc = "raised", !.error = "ValueError"]
                      ELSE IF s.hint
                      THEN [h EXCEPT !.attempt = @ + 1,
                                     !.hint_sleep = [k |-> http.attempt, jitter |-> 0,
                                                     ms |-> s.ms,
                                                     retry_after |-> retry_after]]
                      ELSE [h EXCEPT !.attempt = @ + 1,
                                     !.prev_backoff_sleep = [http.backoff_sleep EXCEPT !.jitter = 0],
                                     !.backoff_sleep = [k |-> http.attempt,
                                                        jitter |-> jitter,
                                                        ms |-> s.ms,
                                                        retry_after |-> ""]]
    /\ UNCHANGED <<ledger, broker, TRADING_ENABLED, market, last, prev, ncalls, runs, kin, kout, rin, rout, job, sz, throttle, sync, runner>>

NextHttp == \E resp \in HttpResponses, jitter \in Jitters : HttpAttempt(resp, jitter)

SpecHttp == InitHttp /\ [][NextHttp]_vars


\* the last attempt of the call was followed by a sleep and a further pass
Retried == http.pc = "loop" /\ http.attempt > 0

\* the sleep made after the last attempt, if one was made
SleptAfterLast ==
    \/ http.hint_sleep.k = http.requests - 1
    \/ http.backoff_sleep.k = http.requests - 1

\* C27: request_json retries exactly when the response status is 429 or 5xx
\* or the request failed at network level; a response with any other status
\* ends the call on that attempt, without a retry, a backoff sleep or a
\* dead-letter record.
C27_RetryClassification ==
    (http.pc # "idle" /\ http.requests > 0) =>
        LET st == http.resp.status
            retryable == st = 0 \/ st = 429 \/ (st >= 500 /\ st <= 599)
        IN /\ Retried => retryable
           /\ ~retryable => /\ http.pc # "loop"
                            /\ http.requests = 1 + http.attempt
                            /\ ~SleptAfterLast
                            /\ dlq = http.dlq0

\* C28: request_json makes at most max_retries + 1 requests, and it raises
\* to the caller only after the attempt with index max_retries has failed,
\* whatever the status and the Retry-After header.
C28_RaisesOnlyAfterLastAttempt ==
    http.pc # "idle" =>
        /\ http.requests <= http.max_retries + 1
        /\ http.pc = "raised" => http.requests = http.max_retries + 1

\* C29: a call that ended by raising has appended exactly one dead-letter
\* record with the method, the url, the status and the error; a call that
\* returned has appended none; the records present before are kept as
\* they were.
C29_DeadLetterCompleteness ==
    http.pc # "idle" =>
        /\ Len(dlq) >= Len(http.dlq0)
        /\ SubSeq(dlq, 1, Len(http.dlq0)) = http.dlq0
        /\ http.pc \in {"loop", "returned"} => dlq = http.dlq0
        /\ http.pc = "raised" =>
             /\ Len(dlq) = Len(http.dlq0) + 1
             /\ dlq[Len(dlq)].method = http.method
             /\ dlq[Len(dlq)].url = http.url
             /\ dlq[Len(dlq)].error # ""
             /\ dlq[Len(dlq)].status =
                  (IF http.resp.status >= 400 THEN http.resp.status ELSE NoStatus)

\* C30: the sleep before the retry after attempt k is the Retry-After value
\* when the failed response carries one, however large, and otherwise
\* min(30 s, base_backoff * 2^k + jitter) with jitter between 0 and 0.25 s,
\* which is never more than 30 seconds.
C30_Backoff ==
    http.pc # "idle" =>
        /\ http.hint_sleep.k >= 0 =>
             \/ http.hint_sleep.retry_after = "0" /\ http.hint_sleep.ms = 0
             \/ http.hint_sleep.retry_after = "2" /\ http.hint_sleep.ms = 2000
             \/ http.hint_sleep.retry_after = "45" /\ http.hint_sleep.ms = 45000
        /\ http.backoff_sleep.k >= 0 =>
             LET raw == http.base_backoff_ms * (2 ^ http.backoff_sleep.k)
                          + http.backoff_sleep.jitter
             IN /\ http.backoff_sleep.jitter \in 0..250
                /\ http.backoff_sleep.ms = (IF raw < 30000 THEN raw ELSE 30000)
                /\ http.backoff_sleep.ms <= 30000

\* C30: a call that slept 45 s on a Retry-After of 45 and later slept the
\* capped 30 s where base_backoff * 2^4 alone is 32 s
C30_Witness ==
    /\ http.pc # "idle"
    /\ http.hint_sleep.k >= 0
    /\ http.hint_sleep.ms = 45000
    /\ http.backoff_sleep.k = 4
    /\ http.base_backoff_ms * 16 > 30000
    /\ http.backoff_sleep.ms = 30000


\* C31: within one call that met no Retry-After hint, the sleep before
\* retry k+1 is at least the sleep before retry k, for every base_backoff_s
\* and every jitter drawn.
C31_BackoffMonotone ==
    (/\ http.pc # "idle"
     /\ http.hint_sleep.k < 0
     /\ http.backoff_sleep.k >= 1
     /\ http.prev_backoff_sleep.k = http.backoff_sleep.k - 1)
        => http.backoff_sleep.ms >= http.prev_backoff_sleep.ms


(***************************************************************************)
(* The throttle of the resilience client (src/http_client.py, _throttle):  *)
(* every attempt of every request_json call of the process passes through  *)
(* it before its request goes out.  The clock is in milliseconds and does  *)
(* not step backwards.                                                     *)
(***************************************************************************)
\* requests of one process the model follows
MaxRequests == 3

\* HTTP_MIN_INTERVAL_S, default "0.25"
DefaultMinIntervalMs == 250

\* time passed between two arrivals at _throttle: the request before, its
\* response, the caller's own work, a backoff sleep
Elapsed == {0, 100, DefaultMinIntervalMs, 400}

\* what time.sleep sleeps beyond the time asked for
Oversleeps == {0, 20}

\* the callers of request_json and their endpoints
ThrottleCallers ==
    {<<"alpaca_account", "/v2/account">>, <<"sync_fills", "/v2/orders">>,
     <<"paper_order", "/v2/orders">>}

\* a wait computed with the cursor added instead of subtracted
throttle_wait_sign_error(min_interval, now, last_ts) == min_interval - now - last_ts

\* wait = _MIN_INTERVAL_S - (now - _last_ts)
throttle_wait(min_interval, now, last_ts) == min_interval - (now - last_ts)

InitThrottle ==
    /\ sz = <<>>
    /\ http = [pc |-> "idle"]
    /\ dlq = <<>>
    /\ sync = [pc |-> "idle"]
    /\ runner = [pc |-> "idle"]
    /\ InitSeq
    /\ InitKeyIdle
    /\ InitIdle
    /\ TRADING_ENABLED = TRUE
    /\ market \in {m \in SeqMarkets : ~data_is_stale(m, <<"AAPL", "MSFT">>,
                                                      DATA_STALE_SECONDS)}
    /\ runs = IdleRuns
    /\ \E min_interval \in {DefaultMinIntervalMs, 4 * DefaultMinIntervalMs},
          start \in {100000, 100100} :
         throttle = [pc |-> "run", min_interval |-> min_interval, now |-> start,
                     last_ts |-> 0, arrived |-> <<>>, released |-> <<>>,
                     callers |-> <<>>]

\* one attempt of a request_json call of caller c arrives at _throttle
\* elapsed ms after the last event and leaves it with its request released
Throttle(c, elapsed, oversleep) ==
    /\ throttle.pc = "run"
    /\ Len(throttle.released) < MaxRequests
    /\ LET now == throttle.now + elapsed
           wait == throttle_wait(throttle.min_interval, now, throttle.last_ts)
           after == IF wait > 0 THEN now + wait + oversleep ELSE now
       IN throttle' = [throttle EXCEPT !.now = after, !.last_ts = after,
                                       !.arrived = Append(@, now),
                                       !.released = Append(@, after),
                                       !.callers = Append(@, c)]
    /\ UNCHANGED <<ledger, broker, TRADING_ENABLED, market, last, prev, ncalls, runs, kin, kout, rin, rout, job, sz, http, dlq, sync, runner>>

NextThrottle ==
    \E c \in ThrottleCallers, elapsed \in Elapsed, oversleep \in Oversleeps :
        Throttle(c, elapsed, oversleep)

SpecThrottle == InitThrottle /\ [][NextThrottle]_vars

\* C32: two consecutive requests of the process, whoever makes them and
\* whatever the endpoint, are released at least the minimum interval apart,
\* and no request is released before its caller arrived.
C32_Throttling ==
    throttle.pc # "idle" =>
        \A i \in 1..Len(throttle.released) :
            /\ throttle.released[i] >= throttle.arrived[i]
            /\ i > 1 => throttle.released[i] - throttle.released[i - 1]
                            >= throttle.min_interval

\* C32: a caller arrived 100 ms after the request of another caller to
\* another endpoint was released and was held until the interval was over
C32_Witness ==
    /\ throttle.pc # "idle"
    /\ Len(throttle.released) >= 2
    /\ LET n == Len(throttle.released)
       IN /\ throttle.callers[n] # throttle.callers[n - 1]
          /\ throttle.callers[n][2] # throttle.callers[n - 1][2]
          /\ throttle.arrived[n] = throttle.released[n - 1] + 100
          /\ throttle.released[n] = throttle.released[n - 1] + throttle.min_interval


\* the part of a row an upsert on its key leaves alone
KeptPart(r) == <<r.client_order_id, r.symbol, r.side, r.qty>>

\* C33: the ledger holds at most one row for a client_order_id; a call of
\* the execution core deletes no row; and a row that was there before the
\* call keeps its key, symbol, side and quantity, whatever the call wrote
\* into its broker order id, status and raw.
C33_LedgerInvariant ==
    /\ \A r1 \in ledger, r2 \in ledger :
           r1.client_order_id = r2.client_order_id => r1 = r2
    /\ last.op # "" =>
           /\ ledger = last.la
           /\ \A r \in last.lb : \E r2 \in last.la : KeptPart(r2) = KeptPart(r)
           /\ Cardinality(last.la) >= Cardinality(last.lb)

\* C33: a pair call that upserted a row which was already there and gave
\* it another status, and inserted a row as well
C33_Witness ==
    /\ last.op = "execute_pair_signal"
    /\ \E r \in last.lb : \E r2 \in last.la :
           /\ r2.client_order_id = r.client_order_id
           /\ r2.status # r.status
    /\ Cardinality(last.la) > Cardinality(last.lb)


\* C34: a call of execute_pair_signal that went past the gates does not end,
\* returning pair_executed or raising, with a new order at the broker for
\* one leg only and no cancel or flatten attempted; leg B gets no new order
\* when leg A came back blocked_existing_open_order, and leg A's new order
\* is not left alone when leg B comes back blocked_existing_open_order.
C34_AtomicOrCompensated ==
    (PairCalled /\ (last.raised \/ last.mode = "pair_executed")) =>
        LET p == last.pair
            newA == NewLegOrders("L1") # {}
            newB == NewLegOrders("L2") # {}
            compensated == last.cancels >= 1 \/ p.repair.called
        IN /\ (newA /\ ~newB) => compensated
           /\ (newB /\ ~newA) => compensated
           /\ (p.leg1.called /\ ~p.leg1.raised
                 /\ p.leg1.r.mode = "blocked_existing_open_order") => ~newB
           /\ (p.leg2.called /\ ~p.leg2.raised /\ newA
                 /\ p.leg2.r.mode = "blocked_existing_open_order") => compensated


\* the orders at the broker that the run's pairs placed
RunOrders == {i \in DOMAIN broker : ~IsForeign(broker[i])}

\* C35: a run whose fetch of the open orders failed submits no order for
\* any of its pairs.
C35_FetchFailureBlocks ==
    (job.pc # "idle" /\ job.fetch_failed) => RunOrders = {}


\* the flatten orders the broker received during the last call
NewFlattenOrders ==
    {i \in DOMAIN last.ba \ DOMAIN last.bb :
        Prefix(last.ba[i].client_order_id, 15) = "statarb_flatten"}

\* C36: when leg B raises, the cancel and the flatten are attempted only
\* for a leg A that came back submitted_new with a broker id, never for one
\* that came back fetch_existing or blocked_existing_open_order; the cancel
\* request precedes the flatten's reading of leg A; and a flatten order is
\* placed only if leg A's filled quantity, as the broker reports it after
\* the cancel attempt, is above zero.
C36_CompensationSteps ==
    Leg2Raised =>
        LET p == last.pair
            dels == Positions(last.trace, "DELETE")
            attempted == last.cancels >= 1 \/ p.repair.called \/ dels # {}
        IN /\ attempted => /\ p.leg1.r.mode = "submitted_new"
                           /\ p.leg1.r.alpaca_order_id # ""
           /\ p.leg1.r.mode \in {"fetch_existing", "blocked_existing_open_order"}
                => ~attempted /\ NewFlattenOrders = {}
           /\ p.repair.called =>
                /\ Cardinality(dels) = 1
                /\ \A i \in dels :
                     /\ last.trace[i + 1] = "GET"
                     /\ \A j \in 1..(i - 1) : last.trace[j] # "log:exec_flatten_submitted"
           /\ \A k \in NewFlattenOrders :
                \E i \in DOMAIN last.ba :
                    /\ last.ba[i].id = p.leg1.r.alpaca_order_id
                    /\ last.ba[i].filled_qty > 0
                    /\ last.ba[k].qty = p.fill
                    /\ p.fill > 0
                    /\ k > i
                    /\ \A d \in dels : \E g \in Positions(last.trace, "POST") : g > d

\* C36: leg B raised after leg A was submitted and had filled; the cancel
\* was attempted and a flatten order placed
C36_Witness ==
    /\ Leg2Raised
    /\ last.pair.leg1.r.mode = "submitted_new"
    /\ last.cancels = 1
    /\ last.pair.fill > 0
    /\ NewFlattenOrders # {}


\* the symbols of the orders other sources have placed
ForeignSymbols == {broker[i].symbol : i \in {j \in DOMAIN broker : IsForeign(broker[j])}}

\* an order of the run itself was open on a symbol of the last call's pair
\* when the call began
OwnOpenOnPair ==
    \E i \in DOMAIN last.bb :
        /\ ~IsForeign(last.bb[i])
        /\ last.bb[i].status \in OpenStatuses
        /\ last.bb[i].symbol \in {last.args[1].symbol_1, last.args[1].symbol_2}

\* C37: every pair of a run is gated by the snapshot taken before the first
\* pair, which holds only orders that were open then: a pair is refused with
\* open_orders_exist only for a symbol of that snapshot, not for the open
\* order an earlier pair of the run has just placed on a shared symbol.
C37_SnapshotOncePerRun ==
    (job.pc \in {"loop", "done", "crashed"} /\ PairCalled) =>
        /\ last.args[3] = job.open_symbols
        /\ job.open_symbols \subseteq ForeignSymbols
        /\ (last.mode = "blocked_pair" /\ last.pair.reason = "open_orders_exist")
             => \/ last.args[1].symbol_1 \in job.open_symbols
                \/ last.args[1].symbol_2 \in job.open_symbols
        /\ (OwnOpenOnPair /\ job.open_symbols = {})
             => ~(last.mode = "blocked_pair" /\ last.pair.reason = "open_orders_exist")

\* C37: the second pair of a run placed both its legs while orders of the
\* first pair were open on its symbols
C37_Witness ==
    /\ job.pc \in {"loop", "done"}
    /\ PairCalled
    /\ Cardinality(job.attempted) >= 2
    /\ OwnOpenOnPair
    /\ last.mode = "pair_executed"
    /\ NewLegOrders("L1") # {} /\ NewLegOrders("L2") # {}


(***************************************************************************)
(* sync of src/sync_fills.py: the fills of the recent orders are stored as *)
(* trades, each fill id once, and the positions table is rebuilt from the  *)
(* trades table.  The tables are sequences of rows in insertion order.     *)
(***************************************************************************)
\* fills the broker reports over the whole behaviour
MaxFills == 3

\* calls of sync
MaxSyncs == 2

Fill(id, order_id, symbol, side, qty, price) ==
    [id |-> id, order_id |-> order_id, symbol |-> symbol, side |-> side,
     qty |-> qty, price |-> price]

\* the orders of list_recent_orders, each with its symbol and side; "o0"
\* never has a fill (filled_qty 0)
SyncOrders ==
    <<[id |-> "o0", symbol |-> "AAPL", side |-> "buy"],
      [id |-> "o1", symbol |-> "AAPL", side |-> "buy"],
      [id |-> "o2", symbol |-> "AAPL", side |-> "sell"],
      [id |-> "o3", symbol |-> "MSFT", side |-> "sell"]>>

SyncOrderIds == [i \in DOMAIN SyncOrders |-> SyncOrders[i].id]

FillSymbols == {"AAPL", "MSFT"}

RECURSIVE SelectFills(_, _)
SelectFills(fs, order_id) ==
    IF fs = <<>> THEN <<>>
    ELSE (IF fs[1].order_id = order_id THEN <<fs[1]>> ELSE <<>>)
         \o SelectFills(Tail(fs), order_id)

RECURSIVE SumQty(_)
SumQty(fs) == IF fs = <<>> THEN 0 ELSE fs[1].qty + SumQty(Tail(fs))

\* an INSERT without the ON CONFLICT clause
upsert_trade_insert_always(trades, fill, alpaca_order_id) ==
    Append(trades, [alpaca_order_id |-> alpaca_order_id, alpaca_trade_id |-> fill.id,
                    symbol |-> fill.symbol, side |-> fill.side, qty |-> fill.qty,
                    price |-> fill.price])

\* INSERT INTO trades ... ON CONFLICT (alpaca_trade_id) DO NOTHING
upsert_trade(trades, fill, alpaca_order_id) ==
    IF \E i \in DOMAIN trades : trades[i].alpaca_trade_id = fill.id
    THEN trades
    ELSE Append(trades, [alpaca_order_id |-> alpaca_order_id,
                         alpaca_trade_id |-> fill.id,
                         symbol |-> fill.symbol, side |-> fill.side,
                         qty |-> fill.qty, price |-> fill.price])

RECURSIVE upsert_fills(_, _, _)
upsert_fills(trades, fs, alpaca_order_id) ==
    IF fs = <<>> THEN trades
    ELSE upsert_fills(upsert_trade(trades, fs[1], alpaca_order_id), Tail(fs),
                      alpaca_order_id)

\* the loop of sync over the first n orders
RECURSIVE sync_orders(_, _, _)
sync_orders(trades, bfills, n) ==
    IF n = 0 THEN trades
    ELSE LET before == sync_orders(trades, bfills, n - 1)
             fs == SelectFills(bfills, SyncOrderIds[n])
         IN IF SumQty(fs) <= 0 THEN before
            ELSE upsert_fills(before, fs, SyncOrderIds[n])

\* CASE WHEN side = 'buy' THEN qty ELSE -qty END
signed_qty(t) == IF t.side = "buy" THEN t.qty ELSE 0 - t.qty

\* the aggregate of one symbol: SUM(signed_qty), buy_notional, buy_qty
RECURSIVE agg(_, _)
agg(trades, symbol) ==
    IF trades = <<>> THEN [net_qty |-> 0, buy_notional |-> 0, buy_qty |-> 0]
    ELSE LET a == agg(Tail(trades), symbol)
             t == trades[1]
         IN IF t.symbol # symbol THEN a
            ELSE [net_qty |-> a.net_qty + signed_qty(t),
                  buy_notional |-> a.buy_notional
                                     + (IF signed_qty(t) > 0 THEN t.qty * t.price ELSE 0),
                  buy_qty |-> a.buy_qty + (IF signed_qty(t) > 0 THEN t.qty ELSE 0)]

\* TRUNCATE positions; INSERT ... FROM agg WHERE net_qty <> 0.  avg_cost is
\* the quotient buy_notional / buy_qty, kept as its two terms; 0 without buys
recompute_positions_from_trades(trades, now) ==
    {[symbol |-> s, qty |-> agg(trades, s).net_qty,
      avg_cost |-> IF agg(trades, s).buy_qty = 0 THEN <<0, 1>>
                   ELSE <<agg(trades, s).buy_notional, agg(trades, s).buy_qty>>,
      updated_at |-> now]
     : s \in {t \in {trades[i].symbol : i \in DOMAIN trades} :
                 agg(trades, t).net_qty # 0}}

InitSync ==
    /\ sz = <<>>
    /\ http = [pc |-> "idle"]
    /\ dlq = <<>>
    /\ throttle = [pc |-> "idle"]
    /\ runner = [pc |-> "idle"]
    /\ InitSeq
    /\ InitKeyIdle
    /\ InitIdle
    /\ TRADING_ENABLED = TRUE
    /\ market \in {m \in SeqMarkets : ~data_is_stale(m, <<"AAPL", "MSFT">>,
                                                      DATA_STALE_SECONDS)}
    /\ runs = IdleRuns
    /\ sync = [pc |-> "run", bfills |-> <<>>, trades |-> <<>>, positions |-> {},
               nsync |-> 0, outcome |-> "", same_fills |-> FALSE,
               same_fills_before |-> FALSE,
               trades_before |-> <<>>, positions_before |-> {}]

\* the broker reports one more fill of the order o
SyncBrokerFill(o, qty, price) ==
    /\ sync.pc = "run"
    /\ Len(sync.bfills) < MaxFills
    /\ sync' = [sync EXCEPT
                  !.bfills = Append(@, Fill("f" \o ToString(Len(sync.bfills) + 1),
                                            o.id, o.symbol, o.side, qty, price)),
                  !.same_fills = FALSE]
    /\ UNCHANGED <<ledger, broker, TRADING_ENABLED, market, last, prev, ncalls, runs, kin, kout, rin, rout, job, sz, http, dlq, throttle, runner>>

\* same_fills: no fill was reported since the last sync that completed;
\* same_fills_before: the same, as the last call of sync found it.
\* one call of sync.  failed_at = 0: list_recent_orders raises; failed_at = n
\* in 1..4: list_fills_for_order raises for the n-th order, the trades of the
\* orders before it are stored and sync re-raises before the rebuild;
\* failed_at = 5: sync completes.
Sync(failed_at) ==
    /\ sync.pc = "run"
    /\ sync.nsync < MaxSyncs
    /\ failed_at \in 0..(Len(SyncOrderIds) + 1)
    /\ failed_at \in 1..Len(SyncOrderIds) =>
          SumQty(SelectFills(sync.bfills, SyncOrderIds[failed_at])) > 0
    /\ LET completes == failed_at = Len(SyncOrderIds) + 1
           n == IF completes THEN Len(SyncOrderIds)
                ELSE IF failed_at = 0 THEN 0 ELSE failed_at - 1
           trades == sync_orders(sync.trades, sync.bfills, n)
       IN sync' = [sync EXCEPT
                     !.nsync = @ + 1,
                     !.trades = trades,
                     !.positions = IF completes
                                   THEN recompute_positions_from_trades(trades,
                                                                        sync.nsync + 1)
                                   ELSE @,
                     !.outcome = IF completes THEN "completed" ELSE "raised",
                     !.same_fills = IF completes THEN TRUE ELSE @,
                     !.same_fills_before = sync.same_fills,
                     !.trades_before = sync.trades,
                     !.positions_before = sync.positions]
    /\ UNCHANGED <<ledger, broker, TRADING_ENABLED, market, last, prev, ncalls, runs, kin, kout, rin, rout, job, sz, http, dlq, throttle, runner>>

NextSync ==
    \/ \E i \in 2..Len(SyncOrders), qty \in {1, 2}, price \in {100} :
         SyncBrokerFill(SyncOrders[i], qty, price)
    \/ \E failed_at \in 0..(Len(SyncOrders) + 1) : Sync(failed_at)

SpecSync == InitSync /\ [][NextSync]_vars


\* the signed sum of the stored trades of a symbol: buys less sells
NetOf(trades, symbol) ==
    SumQty(SelectSeq(trades, LAMBDA t : t.symbol = symbol /\ t.side = "buy"))
    - SumQty(SelectSeq(trades, LAMBDA t : t.symbol = symbol /\ t.side # "buy"))

\* a positions table as the symbols, quantities and average costs it holds
Holdings(positions) ==
    {<<r.symbol, r.qty, r.avg_cost>> : r \in positions}

\* C38: after a sync that completed, positions has one row, with qty the
\* signed sum, for every symbol whose stored trades sum to a non-zero
\* quantity, and none for a symbol whose trades sum to zero; no fill id is
\* stored twice; and a sync that finds the fills of the completed sync
\* before it leaves the trades and the holdings as they were.
C38_PositionsAndRerun ==
    (sync.pc # "idle" /\ sync.outcome = "completed") =>
        /\ \A s \in FillSymbols :
             LET rows == {r \in sync.positions : r.symbol = s}
             IN IF NetOf(sync.trades, s) # 0
                THEN /\ Cardinality(rows) = 1
                     /\ \A r \in rows : r.qty = NetOf(sync.trades, s)
                ELSE rows = {}
        /\ \A r \in sync.positions : r.symbol \in FillSymbols
        /\ \A i \in DOMAIN sync.trades, j \in DOMAIN sync.trades :
             sync.trades[i].alpaca_trade_id = sync.trades[j].alpaca_trade_id => i = j
        /\ sync.same_fills =>
             \A i \in DOMAIN sync.bfills :
                 \E j \in DOMAIN sync.trades :
                     sync.trades[j].alpaca_trade_id = sync.bfills[i].id
        /\ (sync.nsync >= 2 /\ sync.same_fills_before) =>
             /\ sync.trades = sync.trades_before
             /\ Holdings(sync.positions) = Holdings(sync.positions_before)

\* C38: a second sync over the same three fills: a buy and a sell of AAPL
\* that net to zero (no row) and a sell of MSFT (a short quantity)
C38_Witness ==
    /\ sync.pc # "idle"
    /\ sync.outcome = "completed"
    /\ sync.nsync >= 2
    /\ sync.same_fills_before
    /\ Len(sync.trades) = 3
    /\ \E i \in DOMAIN sync.trades : sync.trades[i].symbol = "AAPL"
    /\ \A r \in sync.positions : r.symbol = "MSFT" /\ r.qty < 0
    /\ sync.positions # {}


(***************************************************************************)
(* The job runner (src/run_jobs.py, main) after migrate.py succeeded: the  *)
(* loop asks every_seconds for each job in turn and runs the script of a   *)
(* job that is due; a script that fails raises out of the try block, the   *)
(* error is logged and the loop sleeps one second.  Time is in seconds and *)
(* kept as the age now - last_run[name] of each job, None being -1; an age *)
(* is counted up to AgeCap, beyond every interval.                         *)
(***************************************************************************)
JobSeq == <<"ingest", "signals", "exec", "fills", "pnl">>

JobNames == {JobSeq[i] : i \in DOMAIN JobSeq}

\* time.sleep(1)
LoopSleepSeconds == 1

AgeCap == 4

\* the *_EVERY_SECONDS settings of .env the model runs under
JobIntervals ==
    {[ingest |-> 1, signals |-> 2, exec |-> 2, fills |-> 1, pnl |-> 2],
     [ingest |-> 3, signals |-> 2, exec |-> 2, fills |-> 3, pnl |-> 3]}

\* seconds a script runs before it exits
ScriptSeconds == {0, 2}

NeverRun == 0 - 1

\* last_run.get(name) is None or now - last_run[name] >= seconds
every_seconds(age, seconds) == age = NeverRun \/ age >= seconds

\* the ages after dt seconds
Later(age, dt) ==
    [n \in JobNames |-> IF age[n] = NeverRun THEN NeverRun
                        ELSE IF age[n] + dt > AgeCap THEN AgeCap ELSE age[n] + dt]

InitJobs ==
    /\ sz = <<>>
    /\ http = [pc |-> "idle"]
    /\ dlq = <<>>
    /\ throttle = [pc |-> "idle"]
    /\ sync = [pc |-> "idle"]
    /\ InitSeq
    /\ InitKeyIdle
    /\ InitIdle
    /\ TRADING_ENABLED = TRUE
    /\ market \in {m \in SeqMarkets : ~data_is_stale(m, <<"AAPL", "MSFT">>,
                                                      DATA_STALE_SECONDS)}
    /\ runs = IdleRuns
    /\ \E every \in JobIntervals :
         runner = [pc |-> "loop", every |-> every, i |-> 1,
                   age |-> [n \in JobNames |-> NeverRun],
                   owed |-> {}, started |-> "", gap |-> NeverRun,
                   failed |-> ""]

\* the i-th if of the try block: the job is not due, or it is started, its
\* script runs for dt seconds and exits with status 0 (ok) or not
RunnerJob(dt, ok) ==
    /\ runner.pc = "loop"
    /\ runner.i \in DOMAIN JobSeq
    /\ LET name == JobSeq[runner.i]
           due == every_seconds(runner.age[name], runner.every[name])
       IN IF ~due
          THEN /\ dt = 0 /\ ok
               /\ runner' = [runner EXCEPT !.i = @ + 1, !.started = "",
                                           !.failed = ""]
          ELSE LET age == Later([runner.age EXCEPT ![name] = 0], dt)
                   others == {n \in JobNames \ {name} :
                                every_seconds(age[n], runner.every[n])}
               IN runner' = [runner EXCEPT
                               !.age = age,
                               !.started = name,
                               !.gap = runner.age[name],
                               !.failed = IF ok THEN "" ELSE name,
                               !.owed = IF ok THEN @ \ {name}
                                        ELSE (@ \ {name}) \cup others,
                               !.i = IF ok THEN @ + 1 ELSE Len(JobSeq) + 1]
    /\ UNCHANGED <<ledger, broker, TRADING_ENABLED, market, last, prev, ncalls, runs, kin, kout, rin, rout, job, sz, http, dlq, throttle, sync>>

\* the end of an iteration: (the except branch logs runner_loop_error,)
\* time.sleep(1), and the loop starts again
RunnerSleep ==
    /\ runner.pc = "loop"
    /\ runner.i = Len(JobSeq) + 1
    /\ runner' = [runner EXCEPT !.i = 1, !.started = "", !.failed = "",
                                !.age = Later(runner.age, LoopSleepSeconds)]
    /\ UNCHANGED <<ledger, broker, TRADING_ENABLED, market, last, prev, ncalls, runs, kin, kout, rin, rout, job, sz, http, dlq, throttle, sync>>

NextJobs ==
    \/ \E dt \in ScriptSeconds, ok \in BOOLEAN : RunnerJob(dt, ok)
    \/ RunnerSleep

\* every script exits, so the loop always goes on
SpecJobs == InitJobs /\ [][NextJobs]_vars /\ WF_vars(NextJobs)

\* C39: a job that was due when the script of another job failed is started
\* in a later iteration, the loop never ends, and a job is not started
\* again before its interval has passed since its last start.
C39_NoStarvation ==
    /\ \A n \in JobNames : (runner.pc = "loop" /\ n \in runner.owed)
                              ~> (runner.pc = "loop" /\ n \notin runner.owed)
    /\ []((runner.pc = "loop" /\ runner.started # "" /\ runner.gap # NeverRun)
             => runner.gap >= runner.every[runner.started])

====
